---------------------------- MODULE Spec2Model ----------------------------
(***************************************************************************)
(* A state-machine model of the demo-anticheat statistics engine:          *)
(* the metrics store (PlayerStats / DemoStats), the collector pipeline     *)
(* driven by Analyzer.Analyze, the collectors (weapon usage, headshots,    *)
(* snap angle, reaction time, recoil control, game mode) and the           *)
(* composite CheatDetector.                                                *)
(*                                                                         *)
(* Conventions.                                                            *)
(*  - float64 quantities are fixed-point integers in units of 1/FP         *)
(*    (degrees, milliseconds, percentages, 0..1 scores); a float division  *)
(*    is an integer division at that resolution.                           *)
(*  - A Go map is a function whose DOMAIN is the set of keys present.      *)
(*  - A *common.Player is a player object id; Nil is the nil pointer.      *)
(*  - Metric.Description and Metric.DurationValue are not modelled: no     *)
(*    collector reads them back.                                           *)
(*  - The demo parser is the environment: it dispatches events while       *)
(*    CurrentFrame() is still the number of frames completed so far, then  *)
(*    completes the frame (CurrentFrame() + 1) and returns to Analyze.     *)
(***************************************************************************)
EXTENDS Integers, Sequences, FiniteSets, TLC

VARIABLES
    pc,             \* Analyze: "setup", "parse", "collect", "final", "done", "aborted", "refinal", "redone"
    ci,             \* index into Collectors of the next collector to call
    frame,          \* parser.CurrentFrame()
    frameCount,     \* Analyze's local frameCount
    handlers,       \* registered event handlers, in registration order
    pending,        \* events the parser dispatched so far in the current ParseNextFrame call
    gs,             \* parser.GameState() as seen by the CollectFrame hooks
    tickRate,       \* parser.TickRate()
    demoStats,      \* *DemoStats
    viewBuffers,    \* SnapAngleCollector.viewBuffers
    snapVelocities, \* SnapAngleCollector.snapVelocities
    snapTickRate,   \* SnapAngleCollector.tickRate
    entryTicks,     \* ReactionTimeCollector.entryTicks
    reactionTimes,  \* ReactionTimeCollector.reactionTimes
    rtcTick,        \* ReactionTimeCollector.currentTick
    rtcTickRate,    \* ReactionTimeCollector.tickRate
    sprayStates,    \* RecoilControlCollector.sprayStates
    roundCount,     \* GameModeCollector.roundCount
    results,        \* what Analyze returned: "none", "stats" or "error"
    hist            \* history variables (observations for the properties, no program state)

vars == <<pc, ci, frame, frameCount, handlers, pending, gs, tickRate, demoStats,
          viewBuffers, snapVelocities, snapTickRate, entryTicks, reactionTimes,
          rtcTick, rtcTickRate, sprayStates, roundCount, results, hist>>

-----------------------------------------------------------------------------
(* Numbers *)

\* Resolution of the fixed-point stand-in for float64.
FP == 100

Min(a, b) == IF a < b THEN a ELSE b
Max(a, b) == IF a > b THEN a ELSE b
Abs(a) == IF a < 0 THEN 0 - a ELSE a

RECURSIVE SqrtBetween(_, _, _)
SqrtBetween(n, lo, hi) ==
    IF lo >= hi THEN lo
    ELSE LET mid == (lo + hi + 1) \div 2
         IN  IF mid * mid <= n THEN SqrtBetween(n, mid, hi) ELSE SqrtBetween(n, lo, mid - 1)

\* math.Sqrt on a non-negative value, rounded down (32-bit safe: the root is below 46341)
Sqrt(n) == SqrtBetween(n, 0, Min(n, 46340))

\* math.Hypot
Hypot(a, b) == Sqrt(a * a + b * b)

\* sort.Float64s: insertion into a sorted sequence, then the fold.
RECURSIVE InsertSorted(_, _)
InsertSorted(s, x) ==
    IF s = <<>> THEN <<x>>
    ELSE IF x <= Head(s) THEN <<x>> \o s
    ELSE <<Head(s)>> \o InsertSorted(Tail(s), x)

RECURSIVE SortFloat64s(_)
SortFloat64s(s) == IF s = <<>> THEN <<>> ELSE InsertSorted(SortFloat64s(Tail(s)), Head(s))

RECURSIVE SumSeq(_)
SumSeq(s) == IF s = <<>> THEN 0 ELSE Head(s) + SumSeq(Tail(s))

-----------------------------------------------------------------------------
(* Maps *)

EmptyMap == <<>>

Put(f, k, v) == [x \in (DOMAIN f) \cup {k} |-> IF x = k THEN v ELSE f[x]]

Remove(f, k) == [x \in (DOMAIN f) \ {k} |-> f[x]]

-----------------------------------------------------------------------------
(* Player objects handed out by the parser *)

Nil == 0

\* Human players are objects 1..NumPlayers with SteamID64 = object id.
NumPlayers == 2

\* One bot object: bots carry SteamID64 0.
BotObj == NumPlayers + 1

HumanObjs == 1 .. NumPlayers
PlayerObjs == HumanObjs \cup {BotObj}

SteamID64(o) == IF o = BotObj THEN 0 ELSE o
Team(o) == IF o % 2 = 1 THEN "T" ELSE "CT"
PlayerName(o) == IF o = BotObj THEN "BOT" ELSE "player"

-----------------------------------------------------------------------------
(* Metrics store *)

Metric(type, f, i, s) == [Type |-> type, FloatValue |-> f, IntValue |-> i, StringValue |-> s]

\* Metric{}: the zero value GetMetric returns with found = false
ZeroMetric == Metric("", 0, 0, "")

IntegerMetric(i) == Metric("integer", 0, i, "")
FloatMetric(f) == Metric("float", f, 0, "")
PercentageMetric(f) == Metric("percentage", f, 0, "")
StringMetric(s) == Metric("string", 0, 0, s)

NewPlayerStats(id, name) ==
    [Player |-> [SteamID64 |-> id, Name |-> name], Categories |-> EmptyMap]

NewDemoStats == [Players |-> EmptyMap, TickCount |-> 0]

\* A store that keeps the metric it already has
AddIfAbsent(ps, category, key, metric) ==
    IF category \in DOMAIN ps.Categories /\ key \in DOMAIN ps.Categories[category] THEN ps
    ELSE [ps EXCEPT !.Categories =
             Put(@, category, Put(IF category \in DOMAIN @ THEN @[category] ELSE EmptyMap, key, metric))]

AddMetric(ps, category, key, metric) ==
    [ps EXCEPT !.Categories =
        Put(@, category, Put(IF category \in DOMAIN @ THEN @[category] ELSE EmptyMap, key, metric))]

\* The found result of GetMetric
HasMetric(ps, category, key) ==
    /\ category \in DOMAIN ps.Categories
    /\ key \in DOMAIN ps.Categories[category]

\* The metric result of GetMetric
GetMetric(ps, category, key) ==
    IF HasMetric(ps, category, key) THEN ps.Categories[category][key] ELSE ZeroMetric

IncrementIntMetric(ps, category, key) ==
    IF category \notin DOMAIN ps.Categories
    THEN [ps EXCEPT !.Categories = Put(ps.Categories, category, Put(EmptyMap, key, IntegerMetric(1)))]
    ELSE IF key \in DOMAIN ps.Categories[category]
         THEN [ps EXCEPT !.Categories[category][key].IntValue = @ + 1]
         ELSE [ps EXCEPT !.Categories[category] = Put(@, key, IntegerMetric(1))]

\* A store that makes a new entry at every call
ResetPlayerStats(ds, o) ==
    [ds EXCEPT !.Players = Put(ds.Players, SteamID64(o), NewPlayerStats(SteamID64(o), PlayerName(o)))]

\* GetOrCreatePlayerStats(player) for a non-nil player: the DemoStats with the entry present
GetOrCreatePlayerStats(ds, o) ==
    IF SteamID64(o) \in DOMAIN ds.Players THEN ds
    ELSE [ds EXCEPT !.Players = Put(ds.Players, SteamID64(o), NewPlayerStats(SteamID64(o), PlayerName(o)))]

GetOrCreatePlayerStatsBySteamID(ds, id) ==
    IF id \in DOMAIN ds.Players THEN ds
    ELSE [ds EXCEPT !.Players = Put(ds.Players, id, NewPlayerStats(id, "Unknown"))]

\* ps.AddMetric / ps.IncrementIntMetric through the pointer held in ds.Players
AddPlayerMetric(ds, id, category, key, metric) ==
    [ds EXCEPT !.Players[id] = AddMetric(@, category, key, metric)]

IncPlayerMetric(ds, id, category, key) ==
    [ds EXCEPT !.Players[id] = IncrementIntMetric(@, category, key)]

-----------------------------------------------------------------------------
(* Iteration *)

\* Op applied to the value of x: x is evaluated once, where an operator
\* would evaluate its argument at every use
Eval(x, Op(_)) == CHOOSE r \in {Op(y) : y \in {x}} : TRUE

\* A Go range loop whose iterations touch disjoint state: ascending order.
FoldSet(Op(_, _), base, S) ==
    LET iter[s \in SUBSET S] ==
            IF s = {} THEN base
            ELSE LET x == CHOOSE y \in s : \A z \in s : z <= y
                 IN  Eval(iter[s \ {x}], LAMBDA acc : Op(acc, x))
    IN  iter[S]

\* The state the hooks work on, as one record:
\*   ds demoStats, vb viewBuffers, sv snapVelocities, et entryTicks,
\*   rt reactionTimes, tick ReactionTimeCollector.currentTick,
\*   ss sprayStates, rc roundCount, h history
Cur ==
    [ds |-> demoStats, vb |-> viewBuffers, sv |-> snapVelocities,
     et |-> entryTicks, rt |-> reactionTimes, tick |-> rtcTick,
     ss |-> sprayStates, rc |-> roundCount, h |-> hist]

Install(S) ==
    /\ demoStats' = S.ds
    /\ viewBuffers' = S.vb
    /\ snapVelocities' = S.sv
    /\ entryTicks' = S.et
    /\ reactionTimes' = S.rt
    /\ rtcTick' = S.tick
    /\ sprayStates' = S.ss
    /\ roundCount' = S.rc
    /\ hist' = S.h

\* gs.Participants().Playing() with a non-nil player and a nonzero SteamID64
PlayingHumans(g) == {o \in g.playing : SteamID64(o) # 0}

-----------------------------------------------------------------------------
(* WeaponUsageCollector *)

\* isKnife / ActiveWeapon() == nil on the held item class "none", "knife", "gun"
WeaponTickKey(held) ==
    IF held = "none" THEN "no_weapon_ticks"
    ELSE IF held = "knife" THEN "knife_ticks"
    ELSE "non_knife_ticks"

WeaponUsage_Player(ds, g, o) ==
    LET id == SteamID64(o)
        d1 == GetOrCreatePlayerStats(ds, o)
        d2 == IncPlayerMetric(d1, id, "weapons", "total_ticks")
    IN  IncPlayerMetric(d2, id, "weapons", WeaponTickKey(g.held[o]))

WeaponUsage_CollectFrame(S, g) ==
    LET Step(ds, o) == WeaponUsage_Player(ds, g, o)
    IN  [S EXCEPT !.ds = FoldSet(Step, S.ds, PlayingHumans(g))]

\* A percentage cut to whole percent
WholePercent(n, total) == ((n * 100) \div total) * FP

\* float64(n) / float64(total) * 100
Percentage(n, total) == (n * 100 * FP) \div total

WeaponUsage_FinalPlayer(ps) ==
    LET total == GetMetric(ps, "weapons", "total_ticks")
        Pct(p, ticksKey, pctKey) ==
            IF HasMetric(p, "weapons", ticksKey)
            THEN AddMetric(p, "weapons", pctKey,
                     PercentageMetric(Percentage(GetMetric(p, "weapons", ticksKey).IntValue, total.IntValue)))
            ELSE p
    IN  IF ~HasMetric(ps, "weapons", "total_ticks") \/ total.IntValue = 0 THEN ps
        ELSE Pct(Pct(Pct(ps, "knife_ticks", "knife_percentage"),
                     "non_knife_ticks", "non_knife_percentage"),
                 "no_weapon_ticks", "no_weapon_percentage")

WeaponUsage_CollectFinalStats(S) ==
    [S EXCEPT !.ds.Players = [id \in DOMAIN S.ds.Players |-> WeaponUsage_FinalPlayer(S.ds.Players[id])]]

-----------------------------------------------------------------------------
(* HeadshotCollector *)

\* The events.Kill handler registered in Setup; e = [Killer, Victim, IsHeadshot]
Headshot_OnKill(S, e) ==
    IF e.Killer = Nil \/ e.Victim = Nil \/ e.Killer = e.Victim \/ Team(e.Killer) = Team(e.Victim)
    THEN S
    ELSE LET id == SteamID64(e.Killer)
             d1 == GetOrCreatePlayerStats(S.ds, e.Killer)
             d2 == IncPlayerMetric(d1, id, "kills", "total_kills")
             d3 == IF e.IsHeadshot THEN IncPlayerMetric(d2, id, "kills", "headshot_kills") ELSE d2
         IN  [S EXCEPT !.ds = d3]

\* A finalize step that writes nothing for a player without headshot kills
Headshot_OmitZero(ps) ==
    IF HasMetric(ps, "kills", "total_kills") /\ GetMetric(ps, "kills", "total_kills").IntValue # 0
       /\ HasMetric(ps, "kills", "headshot_kills")
    THEN AddMetric(ps, "kills", "headshot_percentage",
             PercentageMetric((GetMetric(ps, "kills", "headshot_kills").IntValue * 100 * FP)
                                  \div GetMetric(ps, "kills", "total_kills").IntValue))
    ELSE ps

Headshot_FinalPlayer(ps) ==
    LET total == GetMetric(ps, "kills", "total_kills")
    IN  IF ~HasMetric(ps, "kills", "total_kills") \/ total.IntValue = 0 THEN ps
        ELSE IF HasMetric(ps, "kills", "headshot_kills")
             THEN AddMetric(ps, "kills", "headshot_percentage",
                      PercentageMetric(Percentage(GetMetric(ps, "kills", "headshot_kills").IntValue, total.IntValue)))
             ELSE AddMetric(ps, "kills", "headshot_percentage", PercentageMetric(0))

Headshot_CollectFinalStats(S) ==
    [S EXCEPT !.ds.Players = [id \in DOMAIN S.ds.Players |-> Headshot_FinalPlayer(S.ds.Players[id])]]

-----------------------------------------------------------------------------
(* GameModeCollector *)

\* The events.RoundEnd handler registered in Setup
GameMode_OnRoundEnd(S) == [S EXCEPT !.rc = @ + 1]

\* playerCount <= 4
WingmanMaxPlayers == 4

GameMode_CollectFinalStats(S) ==
    LET d1 == GetOrCreatePlayerStatsBySteamID(S.ds, 0)
        d2 == AddPlayerMetric(d1, 0, "game_info", "round_count", IntegerMetric(S.rc))
        playerCount == Cardinality(DOMAIN d2.Players)
        mode == IF playerCount <= WingmanMaxPlayers THEN "Wingman" ELSE "Competitive"
        d3 == AddPlayerMetric(d2, 0, "game_info", "game_mode", StringMetric(mode))
        Each(ps) == AddMetric(AddMetric(ps, "game_info", "round_count", IntegerMetric(S.rc)),
                              "game_info", "game_mode", StringMetric(mode))
    IN  [S EXCEPT !.ds = [d3 EXCEPT !.Players = [id \in DOMAIN d3.Players |-> Each(d3.Players[id])]]]

-----------------------------------------------------------------------------
(* SnapAngleCollector *)

ViewAngleBufferSize == 40

\* MinAngleDiffThreshold = 0.2 degrees
MinAngleDiffThreshold == FP \div 5

\* The zero ViewAngleSnapshot that make() fills a new buffer with
ZeroSnapshot == [Tick |-> 0, Yaw |-> 0, Pitch |-> 0]

NewRingBuffer(size) ==
    [Buffer |-> [i \in 1 .. size |-> ZeroSnapshot], Index |-> 0, Size |-> size]

\* RingBuffer.Add (Buffer is 0-based in Go, 1-based here)
RingAdd(rb, snapshot) ==
    [rb EXCEPT !.Buffer[rb.Index + 1] = snapshot, !.Index = (rb.Index + 1) % rb.Size]

\* A read of the first n slots of the buffer
GetFirst(rb, n) == [i \in 1 .. Min(n, rb.Size) |-> rb.Buffer[i]]

\* RingBuffer.GetLast: most recent first
GetLast(rb, n) ==
    LET m == Min(n, rb.Size)
    IN  [i \in 1 .. m |-> rb.Buffer[((rb.Index - (i - 1) - 1 + rb.Size) % rb.Size) + 1]]

\* math.Mod: the result takes the sign of x
GoMod(x, m) == IF x >= 0 THEN x % m ELSE 0 - ((0 - x) % m)

\* angleDiff(a, b), in 1/FP degrees
angleDiff(a, b) ==
    LET d0 == GoMod(b - a + 180 * FP, 360 * FP) - 180 * FP
        d1 == IF d0 < 0 - 180 * FP THEN d0 + 360 * FP ELSE d0
    IN  Abs(d1)

\* sqrt(yawDiff^2 + pitchDiff^2) between two snapshots
SnapshotDelta(x, y) == Hypot(angleDiff(x.Yaw, y.Yaw), angleDiff(x.Pitch, y.Pitch))

\* The loop of processKill: the 1-based index i (2 .. Len-1) of the first pair
\* (recent[i], recent[i+1]) that moved less than the threshold, or 0
RECURSIVE SettledAt(_, _)
SettledAt(recent, i) ==
    IF i > Len(recent) - 1 THEN 0
    ELSE IF SnapshotDelta(recent[i], recent[i + 1]) < MinAngleDiffThreshold THEN i
    ELSE SettledAt(recent, i + 1)

\* The start snapshot processKill settles on
SnapStart(recent) ==
    LET i == SettledAt(recent, 2)
    IN  IF i # 0 THEN recent[i + 1]
        ELSE IF Len(recent) > 1 THEN recent[Len(recent)]
        ELSE ZeroSnapshot

\* The velocity processKill computes, in 1/FP degrees per millisecond, and
\* whether it passes velocity > 0 (NaN and Inf cannot arise from finite inputs)
SnapVelocity(recent, rate) ==
    LET endS == recent[1]
        startS == SnapStart(recent)
        td0 == endS.Tick - startS.Tick
        tickDelta == IF td0 <= 0 THEN 1 ELSE td0
        angleDelta == SnapshotDelta(startS, endS)
        timeDeltaMs == (tickDelta * 1000 * FP) \div Max(1, rate)
    IN  [valid |-> timeDeltaMs > 0 /\ angleDelta > 0,
         v |-> IF timeDeltaMs > 0 THEN (angleDelta * FP) \div timeDeltaMs ELSE 0]

Snap_processKill(S, e, rate) ==
    IF e.Killer = Nil \/ e.Victim = Nil THEN S
    ELSE IF Team(e.Killer) = Team(e.Victim) THEN S
    ELSE IF SteamID64(e.Killer) \notin DOMAIN S.vb THEN S
    ELSE LET id == SteamID64(e.Killer)
             recent == GetLast(S.vb[id], ViewAngleBufferSize)
         IN  IF Len(recent) < 5 THEN S
             ELSE LET vel == SnapVelocity(recent, rate)
                      old == IF id \in DOMAIN S.sv THEN S.sv[id] ELSE <<>>
                      sv1 == IF vel.valid THEN Put(S.sv, id, Append(old, vel.v)) ELSE S.sv
                      d1 == GetOrCreatePlayerStats(S.ds, e.Killer)
                  IN  [S EXCEPT !.sv = sv1,
                                !.ds = IncPlayerMetric(d1, id, "aiming", "snapped_kills"),
                                !.h.snap = [start |-> SnapStart(recent), end |-> recent[1]]]

Snap_Player(vb, g, o, tick) ==
    LET id == SteamID64(o)
        rb == IF id \in DOMAIN vb THEN vb[id] ELSE NewRingBuffer(ViewAngleBufferSize)
    IN  Put(vb, id, RingAdd(rb, [Tick |-> tick, Yaw |-> g.yaw[o], Pitch |-> g.pitch[o]]))

Snap_CollectFrame(S, g, tick) ==
    LET Step(vb, o) == Snap_Player(vb, g, o, tick)
    IN  [S EXCEPT !.vb = FoldSet(Step, S.vb, PlayingHumans(g))]

\* A percentile index stuck at the smallest element
FirstIndex(n) == 0

\* int(float64(len) * 0.95), clamped to the last index (0-based)
P95Index(n) == Min((n * 95) \div 100, n - 1)

Snap_FinalPlayer(ds, id, velocities) ==
    IF Len(velocities) = 0 \/ id \notin DOMAIN ds.Players THEN ds
    ELSE LET sorted == SortFloat64s(velocities)
             n == Len(sorted)
             d1 == AddPlayerMetric(ds, id, "aiming", "p95_snap_velocity", FloatMetric(sorted[P95Index(n) + 1]))
             d2 == AddPlayerMetric(d1, id, "aiming", "median_snap_velocity", FloatMetric(sorted[(n \div 2) + 1]))
             d3 == AddPlayerMetric(d2, id, "aiming", "avg_snap_velocity", FloatMetric(SumSeq(sorted) \div n))
         IN  AddPlayerMetric(d3, id, "aiming", "snap_count", IntegerMetric(n))

\* sort.Float64s sorts the collector's own slice in place
Snap_CollectFinalStats(S) ==
    LET Step(ds, id) == Snap_FinalPlayer(ds, id, S.sv[id])
    IN  [S EXCEPT !.ds = FoldSet(Step, S.ds, DOMAIN S.sv),
                  !.sv = [id \in DOMAIN S.sv |->
                             IF Len(S.sv[id]) = 0 \/ id \notin DOMAIN S.ds.Players
                             THEN S.sv[id] ELSE SortFloat64s(S.sv[id])]]

-----------------------------------------------------------------------------
(* ReactionTimeCollector *)

MinReactionSamples == 5

\* "if deltaT <= 2000.0", in milliseconds
MaxReactionMs == 2000

\* A reaction time left in ticks
TicksElapsed(tick, entryTick, rate) == (tick - entryTick) * FP

\* float64(currentTick - entryTick) * (1000.0 / tickRate), in 1/FP milliseconds
ReactionDeltaT(tick, entryTick, rate) == ((tick - entryTick) * 1000 * FP) \div rate

\* History: a sample was recorded for attacker a against opponent o.
\*   served[a] is the set of opponents a has got a sample against and that
\*   have been in a's FOV in every frame since; fovSince[a][o] is the frame
\*   since which o has been in a's FOV without a break; repeat collects the
\*   pairs that got a further sample while still in served; last is the
\*   latest sample with the ticks it was computed from.
NoteSample(h, a, o, entryTick, tick, deltaT) ==
    [h EXCEPT !.repeat = IF o \in h.served[a] THEN @ \cup {<<a, o>>} ELSE @,
              !.served[a] = @ \cup {o},
              !.last = [attacker |-> a, opponent |-> o, entry |-> entryTick,
                        fire |-> tick, deltaT |-> deltaT,
                        fresh |-> o \notin h.served[a],
                        since |-> IF o \in DOMAIN h.fovSince[a] THEN h.fovSince[a][o] ELSE 0 - 1]]

\* An iteration that records the sample whatever the elapsed time
Reaction_SampleAll(S, shooter, o, rate) ==
    LET id == SteamID64(shooter)
        deltaT == ReactionDeltaT(S.tick, S.et[id][o], rate)
        old == IF id \in DOMAIN S.rt THEN S.rt[id] ELSE <<>>
    IN  [S EXCEPT !.rt = Put(S.rt, id, Append(old, deltaT)),
                  !.ds = IncPlayerMetric(GetOrCreatePlayerStats(S.ds, shooter), id,
                                         "reaction", "shots_after_fov_entry"),
                  !.h = NoteSample(S.h, id, o, S.et[id][o], S.tick, deltaT)]

\* One iteration of "for _, entryTick := range attackerEntryTicks"
Reaction_Sample(S, shooter, o, rate) ==
    LET id == SteamID64(shooter)
        entryTick == S.et[id][o]
        deltaT == ReactionDeltaT(S.tick, entryTick, rate)
        old == IF id \in DOMAIN S.rt THEN S.rt[id] ELSE <<>>
        d1 == GetOrCreatePlayerStats(S.ds, shooter)
    IN  IF deltaT <= MaxReactionMs * FP
        THEN [S EXCEPT !.rt = Put(S.rt, id, Append(old, deltaT)),
                       !.ds = IncPlayerMetric(d1, id, "reaction", "shots_after_fov_entry"),
                       !.h = NoteSample(S.h, id, o, entryTick, S.tick, deltaT)]
        ELSE S

\* e = [Shooter, Weapon, Yaw, Pitch]. The range over the map is taken in
\* ascending opponent id: the samples are only ever used sorted or counted.
Reaction_processWeaponFire(S, e, rate) ==
    IF e.Shooter = Nil \/ SteamID64(e.Shooter) = 0 THEN S
    ELSE LET id == SteamID64(e.Shooter)
         IN  IF id \notin DOMAIN S.et \/ DOMAIN S.et[id] = {} THEN S
             ELSE LET Step(T, o) == Reaction_Sample(T, e.Shooter, o, rate)
                      S1 == FoldSet(Step, S, DOMAIN S.et[id])
                  IN  [S1 EXCEPT !.et[id] = EmptyMap]

clearEntryTicksForPlayer(et, playerID) ==
    LET asTarget == [a \in DOMAIN et |-> Remove(et[a], playerID)]
    IN  Remove(asTarget, playerID)

\* The events.RoundEnd handler registered in Setup
Reaction_OnRoundEnd(S) == [S EXCEPT !.et = EmptyMap]

\* The events.Kill handler registered in Setup
Reaction_OnKill(S, e) ==
    LET et1 == IF e.Victim # Nil THEN clearEntryTicksForPlayer(S.et, SteamID64(e.Victim)) ELSE S.et
        et2 == IF e.Killer # Nil THEN clearEntryTicksForPlayer(et1, SteamID64(e.Killer)) ELSE et1
    IN  [S EXCEPT !.et = et2]

\* The opponents of attacker a that pass every test of the inner loop of
\* CollectFrame; <<a, o>> \in g.fov is the outcome of
\* "length > 0 && dotProduct >= cos(FOV/2)" for the pair
InFovNow(g, a) ==
    {SteamID64(o) : o \in {x \in g.playing :
                              /\ SteamID64(x) # 0
                              /\ Team(x) # Team(a)
                              /\ SteamID64(x) # SteamID64(a)
                              /\ x \in g.alive
                              /\ <<a, x>> \in g.fov}}

\* An attacker loop that stamps every opponent in the FOV with the current tick
Reaction_Restamp(S, g, a) ==
    LET id == SteamID64(a)
        seen == InFovNow(g, a)
    IN  [S EXCEPT !.et = Put(S.et, id, [o \in seen |-> S.tick])]

Reaction_Attacker(S, g, a) ==
    LET id == SteamID64(a)
        old == IF id \in DOMAIN S.et THEN S.et[id] ELSE EmptyMap
        seen == InFovNow(g, a)
        new == [o \in seen |-> IF o \in DOMAIN old THEN old[o] ELSE S.tick]
    IN  [S EXCEPT !.et = Put(S.et, id, new)]

Reaction_CollectFrame(S, g, tick) ==
    LET Step(T, a) == Reaction_Attacker(T, g, a)
    IN  FoldSet(Step, [S EXCEPT !.tick = tick], PlayingHumans(g))

\* A clamp that lets every value through
NoClamp(value) == value

\* Helper function to clamp a value between 0 and 1 (FP is 1.0)
clamp01(value) ==
    IF value < 0 THEN 0
    ELSE IF value > FP THEN FP
    ELSE value

\* int(float64(len) * 0.1), 0-based
P10Index(n) == n \div 10

\* A reaction ramp that reaches 1 only at 0 ms
SlowReactionScore(p10) == clamp01(((120 * FP - p10) * FP) \div (120 * FP))

\* clamp01((120.0 - p10Reaction) / 60.0)
ReactionScore(p10) == clamp01(((120 * FP - p10) * FP) \div (60 * FP))

\* A finalize that is content with one sample fewer
Reaction_FinalFromFour(ds, id, times) ==
    IF Len(times) < MinReactionSamples - 1 \/ id \notin DOMAIN ds.Players THEN ds
    ELSE LET sorted == SortFloat64s(times)
             n == Len(sorted)
             p10 == sorted[P10Index(n) + 1]
             sub100 == Cardinality({i \in 1 .. n : sorted[i] <= 100 * FP})
             d1 == AddPlayerMetric(ds, id, "reaction", "median_reaction_time", FloatMetric(sorted[(n \div 2) + 1]))
             d2 == AddPlayerMetric(d1, id, "reaction", "p10_reaction_time", FloatMetric(p10))
             d3 == AddPlayerMetric(d2, id, "reaction", "sub_100ms_ratio", PercentageMetric(Percentage(sub100, n)))
             d4 == AddPlayerMetric(d3, id, "reaction", "reaction_samples", IntegerMetric(n))
         IN  AddPlayerMetric(d4, id, "reaction", "reaction_cheat_score", FloatMetric(ReactionScore(p10)))

Reaction_FinalPlayer(ds, id, times) ==
    IF Len(times) < MinReactionSamples \/ id \notin DOMAIN ds.Players THEN ds
    ELSE LET sorted == SortFloat64s(times)
             n == Len(sorted)
             p10 == sorted[P10Index(n) + 1]
             sub100 == Cardinality({i \in 1 .. n : sorted[i] <= 100 * FP})
             d1 == AddPlayerMetric(ds, id, "reaction", "median_reaction_time", FloatMetric(sorted[(n \div 2) + 1]))
             d2 == AddPlayerMetric(d1, id, "reaction", "p10_reaction_time", FloatMetric(p10))
             d3 == AddPlayerMetric(d2, id, "reaction", "sub_100ms_ratio", PercentageMetric(Percentage(sub100, n)))
             d4 == AddPlayerMetric(d3, id, "reaction", "reaction_samples", IntegerMetric(n))
         IN  AddPlayerMetric(d4, id, "reaction", "reaction_cheat_score", FloatMetric(ReactionScore(p10)))

\* sort.Float64s runs before the player lookup here: every list of at least
\* MinReactionSamples samples is left sorted
Reaction_CollectFinalStats(S) ==
    LET Step(ds, id) == Reaction_FinalPlayer(ds, id, S.rt[id])
    IN  [S EXCEPT !.ds = FoldSet(Step, S.ds, DOMAIN S.rt),
                  !.rt = [id \in DOMAIN S.rt |->
                             IF Len(S.rt[id]) < MinReactionSamples
                             THEN S.rt[id] ELSE SortFloat64s(S.rt[id])]]

-----------------------------------------------------------------------------
(* RecoilControlCollector *)

maxBurstGap == 6
minBurstSize == 4
maxBulletIdx == 30

\* goodThreshold 0.7, perfectThreshold 0.3 (degrees)
goodThreshold == (7 * FP) \div 10
perfectThreshold == (3 * FP) \div 10

\* e.Weapon, by representative equipment: "nil" is a nil *common.Equipment;
\* "mp7" is automatic by type but has no pattern table; "mac10" is automatic
\* by name only; "awp" is automatic by its class (EqClassRifle); "deagle"
\* and "knife" are not automatic
Equipment == {"nil", "ak47", "m4a4", "m4a1", "mp9", "p90", "mp7", "mac10", "awp", "deagle", "knife"}

\* Every weapon taken for an automatic one
AnyWeapon(w) == TRUE

isAutomaticWeapon(w) == w \in {"ak47", "m4a4", "m4a1", "mp9", "p90", "mp7", "mac10", "awp"}

weaponTypeToString(w) == IF w \in {"ak47", "m4a4", "m4a1", "mp9", "p90", "mp7"} THEN w ELSE "unknown"

\* recoilPatterns of getRecoilOffsets: {yaw, pitch} per bullet, in 1/FP degrees
recoilPatterns ==
    [ak47 |->
    <<
      <<0, 0>>, <<0, 100>>, <<0, 250>>, <<20, 400>>, <<50, 550>>,
      <<100, 700>>, <<200, 850>>, <<300, 950>>, <<350, 1000>>, <<250, 1050>>,
      <<0, 1100>>, <<-250, 1150>>, <<-400, 1200>>, <<-500, 1250>>, <<-550, 1300>>,
      <<-500, 1350>>, <<-400, 1400>>, <<-200, 1450>>, <<0, 1500>>, <<200, 1550>>,
      <<400, 1600>>, <<500, 1650>>, <<550, 1700>>, <<500, 1750>>, <<400, 1800>>,
      <<200, 1850>>, <<0, 1900>>, <<-200, 1950>>, <<-400, 2000>>, <<-500, 2050>> >>,
     m4a4 |->
    <<
      <<0, 0>>, <<0, 80>>, <<0, 200>>, <<20, 350>>, <<40, 500>>,
      <<80, 620>>, <<150, 700>>, <<250, 750>>, <<300, 800>>, <<200, 850>>,
      <<0, 900>>, <<-200, 950>>, <<-300, 1000>>, <<-350, 1020>>, <<-300, 1050>>,
      <<-150, 1080>>, <<0, 1100>>, <<150, 1120>>, <<250, 1150>>, <<300, 1180>> >>,
     m4a1 |->
    <<
      <<0, 0>>, <<0, 70>>, <<0, 180>>, <<10, 300>>, <<30, 450>>,
      <<70, 550>>, <<120, 620>>, <<200, 680>>, <<250, 720>>, <<180, 760>>,
      <<0, 800>>, <<-180, 820>>, <<-250, 850>>, <<-300, 870>>, <<-250, 900>>,
      <<-100, 920>>, <<0, 950>>, <<100, 970>>, <<200, 1000>>, <<250, 1020>> >>,
     mp9 |->
    <<
      <<0, 0>>, <<0, 60>>, <<0, 150>>, <<20, 220>>, <<50, 300>>,
      <<100, 380>>, <<150, 450>>, <<200, 500>>, <<150, 550>>, <<50, 600>>,
      <<-50, 630>>, <<-150, 660>>, <<-200, 690>>, <<-150, 720>>, <<-50, 750>>,
      <<50, 780>>, <<150, 810>>, <<200, 840>>, <<150, 870>>, <<50, 900>> >>,
     p90 |->
    <<
      <<0, 0>>, <<0, 40>>, <<0, 100>>, <<10, 180>>, <<20, 250>>,
      <<40, 320>>, <<70, 380>>, <<100, 420>>, <<130, 450>>, <<100, 480>>,
      <<50, 510>>, <<0, 530>>, <<-50, 550>>, <<-100, 570>>, <<-130, 590>>,
      <<-100, 610>>, <<-50, 630>>, <<0, 650>>, <<50, 670>>, <<100, 690>> >>]

\* The default pattern of getRecoilOffsets for a weapon without a table:
\* yaw = sin((i-10)*0.6)*i*0.3 beyond bullet 10, pitch = min(i*0.7, 20), tabulated
\* for i = 1..30 and rounded to 1/FP degrees
defaultPattern ==
    <<
      <<0, 70>>, <<0, 140>>, <<0, 210>>, <<0, 280>>, <<0, 350>>,
      <<0, 420>>, <<0, 490>>, <<0, 560>>, <<0, 630>>, <<0, 700>>,
      <<186, 770>>, <<336, 840>>, <<380, 910>>, <<284, 980>>, <<64, 1050>>,
      <<-212, 1120>>, <<-445, 1190>>, <<-538, 1260>>, <<-440, 1330>>, <<-168, 1400>>,
      <<196, 1470>>, <<524, 1540>>, <<689, 1610>>, <<615, 1680>>, <<309, 1750>>,
      <<-136, 1820>>, <<-567, 1890>>, <<-824, 1960>>, <<-800, 2000>>, <<-483, 2000>> >>

\* getRecoilOffsets: [yaw, pitch, ok]
getRecoilOffsets(w, bulletIndex) ==
    LET i == IF bulletIndex < 1 THEN 1 ELSE IF bulletIndex > 30 THEN 30 ELSE bulletIndex
    IN  IF w \notin DOMAIN recoilPatterns
        THEN [yaw |-> defaultPattern[i][1], pitch |-> defaultPattern[i][2], ok |-> TRUE]
        ELSE LET pattern == recoilPatterns[w]
                 j == IF i - 1 >= Len(pattern) THEN Len(pattern) ELSE i
             IN  [yaw |-> pattern[j][1], pitch |-> pattern[j][2], ok |-> TRUE]

\* The sprayState literal the three "start a burst" places build
NewBurst(e, tick) ==
    [inBurst |-> TRUE, firstTick |-> tick, firstYawDeg |-> e.Yaw, firstPitchDeg |-> e.Pitch,
     bulletIndex |-> 1, lastFireTick |-> tick, weapon |-> e.Weapon,
     sumError |-> 0, countedBullets |-> 0]

\* math.Hypot(expectedYawDeg - actualYawDeg, expectedPitchDeg - actualPitchDeg)
AngularError(state, offsets, e) ==
    Hypot((state.firstYawDeg - offsets.yaw) - e.Yaw, (state.firstPitchDeg - offsets.pitch) - e.Pitch)

\* A burst that goes on counting beyond bullet maxBulletIdx
CountEveryBullet(state, e, tick) ==
    LET idx == state.bulletIndex + 1
        offsets == getRecoilOffsets(state.weapon, idx)
    IN  IF idx >= 4
        THEN [state EXCEPT !.bulletIndex = idx, !.lastFireTick = tick,
                           !.sumError = @ + AngularError(state, offsets, e),
                           !.countedBullets = @ + 1]
        ELSE [state EXCEPT !.bulletIndex = idx, !.lastFireTick = tick]

\* The "continue existing burst" branch of handleWeaponFire
ContinueBurst(state, e, tick) ==
    LET idx == state.bulletIndex + 1
        offsets == getRecoilOffsets(state.weapon, idx)
        s1 == [state EXCEPT !.bulletIndex = idx, !.lastFireTick = tick]
    IN  IF idx >= 4 /\ idx <= maxBulletIdx /\ offsets.ok
        THEN [s1 EXCEPT !.sumError = @ + AngularError(state, offsets, e),
                        !.countedBullets = @ + 1]
        ELSE s1

\* History of the recoil bursts of player id:
\*   counted / errors: bullets and error ever accumulated into a burst;
\*   scored: bursts that got their first counted bullet
NoteBullet(h, id, before, after) ==
    IF after.countedBullets > before.countedBullets
    THEN [h EXCEPT !.counted[id] = @ + 1,
                   !.errors[id] = @ + (after.sumError - before.sumError),
                   !.scored[id] = IF before.countedBullets = 0 THEN @ + 1 ELSE @]
    ELSE h

\*   dropped / errDropped / scoredDropped: the same, of bursts whose state was
\*   deleted (a kill of the player, a round end) before being finalized
NoteDrop(h, id, state) ==
    [h EXCEPT !.dropped[id] = @ + state.countedBullets,
              !.errDropped[id] = @ + state.sumError,
              !.scoredDropped[id] = IF state.countedBullets > 0 THEN @ + 1 ELSE @]

\* A finalize that takes up every burst, however short
finalizeAnyBurst(S, id) ==
    LET state == S.ss[id]
        d0 == GetOrCreatePlayerStatsBySteamID(S.ds, id)
        ps == d0.Players[id]
        d1 == AddPlayerMetric(d0, id, "recoil", "total_error_sum",
                  FloatMetric(GetMetric(ps, "recoil", "total_error_sum").FloatValue + state.sumError))
        d2 == AddPlayerMetric(d1, id, "recoil", "total_counted_bullets",
                  IntegerMetric(GetMetric(ps, "recoil", "total_counted_bullets").IntValue
                                    + state.countedBullets))
        d3 == IncPlayerMetric(d2, id, "recoil", "burst_count")
    IN  [S EXCEPT !.ds = d3,
                  !.ss[id] = [state EXCEPT !.inBurst = FALSE, !.bulletIndex = 0,
                                           !.sumError = 0, !.countedBullets = 0]]

finalizeBurst(S, id) ==
    LET state == S.ss[id]
    IN  IF state.bulletIndex < minBurstSize \/ state.countedBullets = 0 THEN S
        ELSE LET d0 == GetOrCreatePlayerStatsBySteamID(S.ds, id)
                 ps == d0.Players[id]
                 currentErrorSum == GetMetric(ps, "recoil", "total_error_sum").FloatValue
                 currentBulletCount == GetMetric(ps, "recoil", "total_counted_bullets").IntValue
                 d1 == AddPlayerMetric(d0, id, "recoil", "total_error_sum",
                           FloatMetric(currentErrorSum + state.sumError))
                 d2 == AddPlayerMetric(d1, id, "recoil", "total_counted_bullets",
                           IntegerMetric(currentBulletCount + state.countedBullets))
                 d3 == IncPlayerMetric(d2, id, "recoil", "burst_count")
                 weaponKey == weaponTypeToString(state.weapon) \o "_bullets"
                 currentWeaponCount == GetMetric(d3.Players[id], "recoil", weaponKey).IntValue
                 d4 == AddPlayerMetric(d3, id, "recoil", weaponKey,
                           IntegerMetric(currentWeaponCount + state.countedBullets))
             IN  [S EXCEPT !.ds = d4,
                           !.ss[id] = [state EXCEPT !.inBurst = FALSE, !.bulletIndex = 0,
                                                    !.sumError = 0, !.countedBullets = 0]]

\* A handler that ends the burst already at a gap of maxBurstGap ticks
Recoil_FireStrictGap(S, e, tick) ==
    IF e.Shooter = Nil \/ SteamID64(e.Shooter) = 0 THEN S
    ELSE IF ~isAutomaticWeapon(e.Weapon) THEN S
    ELSE LET id == SteamID64(e.Shooter)
         IN  IF id \in DOMAIN S.ss /\ S.ss[id].inBurst /\ tick - S.ss[id].lastFireTick < maxBurstGap
             THEN LET next == ContinueBurst(S.ss[id], e, tick)
                  IN  [S EXCEPT !.ss[id] = next, !.h = NoteBullet(S.h, id, S.ss[id], next)]
             ELSE IF id \in DOMAIN S.ss /\ S.ss[id].inBurst
                  THEN [finalizeBurst(S, id) EXCEPT !.ss[id] = NewBurst(e, tick)]
                  ELSE [S EXCEPT !.ss = Put(S.ss, id, NewBurst(e, tick))]

\* e = [Shooter, Weapon, Yaw, Pitch]: Yaw, Pitch are actualYawDeg, actualPitchDeg
Recoil_handleWeaponFire(S, e, tick) ==
    IF e.Shooter = Nil \/ SteamID64(e.Shooter) = 0 THEN S
    ELSE IF ~isAutomaticWeapon(e.Weapon) THEN S
    ELSE LET id == SteamID64(e.Shooter)
         IN  IF id \notin DOMAIN S.ss
             THEN [S EXCEPT !.ss = Put(S.ss, id, NewBurst(e, tick))]
             ELSE IF S.ss[id].inBurst
                  THEN IF tick - S.ss[id].lastFireTick <= maxBurstGap
                       THEN LET next == ContinueBurst(S.ss[id], e, tick)
                            IN  [S EXCEPT !.ss[id] = next,
                                          !.h = NoteBullet(S.h, id, S.ss[id], next)]
                       ELSE [finalizeBurst(S, id) EXCEPT !.ss[id] = NewBurst(e, tick)]
                  ELSE [S EXCEPT !.ss[id] = NewBurst(e, tick)]

\* A kill handler that scores the victim's burst before deleting it
Recoil_FinalizeOnKill(S, e) ==
    IF e.Victim # Nil /\ SteamID64(e.Victim) # 0 /\ SteamID64(e.Victim) \in DOMAIN S.ss
    THEN [finalizeBurst(S, SteamID64(e.Victim)) EXCEPT
              !.ss = Remove(@, SteamID64(e.Victim)),
              !.h = NoteDrop(@, SteamID64(e.Victim), S.ss[SteamID64(e.Victim)])]
    ELSE S

\* The events.Kill handler registered in Setup
Recoil_OnKill(S, e) ==
    IF e.Victim # Nil /\ SteamID64(e.Victim) # 0 /\ SteamID64(e.Victim) \in DOMAIN S.ss
    THEN [S EXCEPT !.ss = Remove(S.ss, SteamID64(e.Victim)),
                   !.h = NoteDrop(S.h, SteamID64(e.Victim), S.ss[SteamID64(e.Victim)])]
    ELSE S

\* The events.RoundEnd handler registered in Setup
Recoil_OnRoundEnd(S) ==
    LET Step(h, id) == NoteDrop(h, id, S.ss[id])
    IN  [S EXCEPT !.ss = EmptyMap, !.h = FoldSet(Step, S.h, DOMAIN S.ss)]

Recoil_CollectFrame(S, tick) ==
    LET Step(T, id) ==
            IF T.ss[id].inBurst /\ tick - T.ss[id].lastFireTick > maxBurstGap
            THEN finalizeBurst(T, id) ELSE T
    IN  FoldSet(Step, S, DOMAIN S.ss)

\* totalErrorSum.FloatValue / float64(totalBullets.IntValue)
MeanError(errorSum, bullets) == errorSum \div bullets

\* An efficiency that rises with the error: 100% at 1.0 degree or above
RisingEfficiency(meanError) == Max(0, Min(100 * FP, 100 * meanError))

\* 100% at or below perfectThreshold, 0% at 1.0 degree or above, linear between
RecoilEfficiency(meanError) ==
    LET raw == IF meanError <= perfectThreshold THEN 100 * FP
               ELSE IF meanError < FP
                    THEN 100 * FP - (100 * FP * (meanError - perfectThreshold)) \div (FP - perfectThreshold)
                    ELSE 0
    IN  Max(0, Min(100 * FP, raw))

\* A recoil score that is never raised
NoRecoilScore(meanError) == 0

\* clamp01((0.75 - meanError) / 0.45)
RecoilScore(meanError) == clamp01(((((75 * FP) \div 100) - meanError) * FP) \div ((45 * FP) \div 100))

interpretation(meanError, perfect, good) ==
    IF meanError > (12 * FP) \div 10 THEN "Poor recoil control"
    ELSE IF meanError <= perfect THEN "Suspiciously perfect recoil control"
    ELSE IF meanError <= good THEN "Very good recoil control"
    ELSE "Normal recoil control"

\* A finalize whose sample guard asks for the bullets only
Recoil_FinalByBullets(ps) ==
    LET totalErrorSum == GetMetric(ps, "recoil", "total_error_sum")
        totalBullets == GetMetric(ps, "recoil", "total_counted_bullets")
        meanError == MeanError(totalErrorSum.FloatValue, totalBullets.IntValue)
    IN  IF totalBullets.IntValue < 10
        THEN AddMetric(AddMetric(ps, "recoil", "mean_angular_error", FloatMetric(0)),
                       "recoil", "recoil_efficiency", PercentageMetric(0))
        ELSE AddMetric(
                 AddMetric(
                     AddMetric(
                         AddMetric(ps, "recoil", "mean_angular_error", FloatMetric(meanError)),
                         "recoil", "recoil_efficiency", PercentageMetric(RecoilEfficiency(meanError))),
                     "recoil", "recoil_score", FloatMetric(RecoilScore(meanError))),
                 "recoil", "recoil_interpretation",
                 StringMetric(interpretation(meanError, perfectThreshold, goodThreshold)))

Recoil_FinalPlayer(ps) ==
    LET totalErrorSum == GetMetric(ps, "recoil", "total_error_sum")
        totalBullets == GetMetric(ps, "recoil", "total_counted_bullets")
        burstCount == GetMetric(ps, "recoil", "burst_count")
        meanError == MeanError(totalErrorSum.FloatValue, totalBullets.IntValue)
    IN  IF \/ ~HasMetric(ps, "recoil", "total_error_sum")
           \/ ~HasMetric(ps, "recoil", "total_counted_bullets")
           \/ ~HasMetric(ps, "recoil", "burst_count")
           \/ totalBullets.IntValue < 10
           \/ burstCount.IntValue < 2
        THEN AddMetric(AddMetric(ps, "recoil", "mean_angular_error", FloatMetric(0)),
                       "recoil", "recoil_efficiency", PercentageMetric(0))
        ELSE IF totalBullets.IntValue <= 0 THEN ps
        ELSE AddMetric(
                 AddMetric(
                     AddMetric(
                         AddMetric(ps, "recoil", "mean_angular_error", FloatMetric(meanError)),
                         "recoil", "recoil_efficiency", PercentageMetric(RecoilEfficiency(meanError))),
                     "recoil", "recoil_score", FloatMetric(RecoilScore(meanError))),
                 "recoil", "recoil_interpretation",
                 StringMetric(interpretation(meanError, perfectThreshold, goodThreshold)))

Recoil_CollectFinalStats(S) ==
    LET Step(T, id) == IF T.ss[id].inBurst THEN finalizeBurst(T, id) ELSE T
        S1 == FoldSet(Step, S, DOMAIN S.ss)
    IN  [S1 EXCEPT !.ds.Players = [id \in DOMAIN S1.ds.Players |-> Recoil_FinalPlayer(S1.ds.Players[id])]]

-----------------------------------------------------------------------------
(* CheatDetector *)

\* A headshot ramp that reaches 1 only at 100%
WideHsScore(hsPercentage) == clamp01(((hsPercentage - 55 * FP) * FP) \div (45 * FP))

\* clamp01((hsPercentage - 55.0) / 20.0); percentages are in 1/FP percent
HsScore(hsPercentage) == clamp01(((hsPercentage - 55 * FP) * FP) \div (20 * FP))

\* clamp01((p95SnapVelocity - 2.0) / 1.5)
SnapScore(p95SnapVelocity) == clamp01(((p95SnapVelocity - 2 * FP) * FP) \div ((3 * FP) \div 2))

\* 0.45*hsScore + 0.25*snapScore + 0.15*rtScore + 0.15*recoilScore
CheatScore(hsScore, snapScore, rtScore, recoilScore) ==
    (45 * hsScore + 25 * snapScore + 15 * rtScore + 15 * recoilScore) \div 100

\* The 20% boost applied twice over
DoubleBoost(likelihood) == (likelihood * 144) \div 100

\* cheatLikelihood * 1.2
Boost(likelihood) == (likelihood * 12) \div 10

\* A reaction guard of one sample more than the detector's
StrictReactions == MinReactionSamples + 1

\* "totalKills >= 30", "snapCount >= 5", "reactionSamples >= 5"
MinKillsForHs == 30
MinSnaps == 5
MinReactions == 5

\* "totalKills > 15" (Wingman), "totalKills > 39 && roundCount <= 30" (Competitive)
WingmanKills == 15
CompetitiveKills == 39
RegulationRounds == 30

\* A flag threshold of 50
LaxThreshold == 50 * FP

\* "cheatLikelihood >= 55.0"
CheaterThreshold == 55 * FP

\* A component that ignores its minimum-sample guard
Unguarded(count, min, score) == score

\* "if totalKills >= 30 { hsScore = ... }": 0 below the guard
Guarded(count, min, score) == IF count >= min THEN score ELSE 0

\* Everything calculateCheatLikelihood computes for a player, before it stores it
CheatVerdict(ps) ==
    LET hsPercentage == GetMetric(ps, "kills", "headshot_percentage").FloatValue
        totalKills == GetMetric(ps, "kills", "total_kills").IntValue
        p95SnapVelocity == GetMetric(ps, "aiming", "p95_snap_velocity").FloatValue
        snapCount == GetMetric(ps, "aiming", "snap_count").IntValue
        p10Reaction == GetMetric(ps, "reaction", "p10_reaction_time").FloatValue
        reactionSamples == GetMetric(ps, "reaction", "reaction_samples").IntValue
        hsScore == Guarded(totalKills, MinKillsForHs, HsScore(hsPercentage))
        snapScore == Guarded(snapCount, MinSnaps, SnapScore(p95SnapVelocity))
        rtScore == Guarded(reactionSamples, MinReactions, ReactionScore(p10Reaction))
        recoilScore == GetMetric(ps, "recoil", "recoil_score").FloatValue
        cheatScore == CheatScore(hsScore, snapScore, rtScore, recoilScore)
        gameMode == IF HasMetric(ps, "game_info", "game_mode")
                    THEN GetMetric(ps, "game_info", "game_mode").StringValue ELSE "Competitive"
        rounds == IF HasMetric(ps, "game_info", "round_count")
                  THEN GetMetric(ps, "game_info", "round_count").IntValue ELSE RegulationRounds
        wingman == gameMode = "Wingman" /\ totalKills > WingmanKills
        competitive == gameMode = "Competitive" /\ totalKills > CompetitiveKills /\ rounds <= RegulationRounds
        l0 == cheatScore * 100
        l1 == IF wingman THEN Boost(l0) ELSE l0
        l2 == IF competitive THEN Boost(l1) ELSE l1
    IN  [hsScore |-> hsScore, snapScore |-> snapScore, rtScore |-> rtScore,
         recoilScore |-> recoilScore, cheatScore |-> cheatScore,
         wingman |-> wingman, competitive |-> competitive,
         cheatLikelihood |-> IF l2 > 100 * FP THEN 100 * FP ELSE l2]

\* The player's stats after calculateCheatLikelihood stored its metrics
calculateCheatLikelihood(ps) ==
    LET v == CheatVerdict(ps)
        p1 == IF v.wingman THEN AddMetric(ps, "anti_cheat", "wingman_boost", StringMetric("Yes")) ELSE ps
        p2 == IF v.competitive THEN AddMetric(p1, "anti_cheat", "competitive_boost", StringMetric("Yes")) ELSE p1
        p3 == AddMetric(p2, "anti_cheat", "hs_score", FloatMetric(v.hsScore))
        p4 == AddMetric(p3, "anti_cheat", "snap_score", FloatMetric(v.snapScore))
        p5 == AddMetric(p4, "anti_cheat", "reaction_score", FloatMetric(v.rtScore))
        p6 == AddMetric(p5, "anti_cheat", "recoil_score", FloatMetric(v.recoilScore))
        p7 == AddMetric(p6, "anti_cheat", "total_cheat_score", FloatMetric(v.cheatScore))
    IN  AddMetric(p7, "anti_cheat", "cheater",
            StringMetric(IF v.cheatLikelihood >= CheaterThreshold THEN "Yes" ELSE "No"))

Cheat_FinalPlayer(ps) ==
    AddMetric(calculateCheatLikelihood(ps), "anti_cheat", "cheat_likelihood",
        PercentageMetric(CheatVerdict(ps).cheatLikelihood))

\* A finalize hook that passes over the ID-0 entry
Cheat_SkipGlobal(S) ==
    [S EXCEPT !.ds.Players = [id \in DOMAIN S.ds.Players |->
                                 IF id = 0 THEN S.ds.Players[id] ELSE Cheat_FinalPlayer(S.ds.Players[id])]]

Cheat_CollectFinalStats(S) ==
    [S EXCEPT !.ds.Players = [id \in DOMAIN S.ds.Players |-> Cheat_FinalPlayer(S.ds.Players[id])]]

-----------------------------------------------------------------------------
(* The pipeline: NewAnalyzer and Analyzer.Analyze *)

\* A registration order with the CheatDetector ahead of the GameModeCollector
CheatBeforeGameMode ==
    <<"WeaponUsage", "Headshot", "SnapAngle", "ReactionTime", "RecoilControl", "CheatDetector", "GameMode">>

\* The collectors in the order NewAnalyzer registers them
Collectors ==
    <<"WeaponUsage", "Headshot", "SnapAngle", "ReactionTime", "RecoilControl", "GameMode", "CheatDetector">>

\* A faulty loop step that passes over every other collector
SkipCollector(i) == i + 2

\* The step of "for _, collector := range a.collectors"
NextCollector(i) == i + 1

\* The event handlers each Setup registers, in the order it registers them
HandlersOf(c) ==
    LET H(kind) == [kind |-> kind, owner |-> c]
    IN  CASE c = "Headshot" -> <<H("Kill")>>
          [] c = "SnapAngle" -> <<H("Kill"), H("DataTablesParsed")>>
          [] c = "ReactionTime" -> <<H("WeaponFire"), H("RoundEnd"), H("Kill"), H("PlayerHurt")>>
          [] c = "RecoilControl" -> <<H("WeaponFire"), H("Kill"), H("RoundEnd")>>
          [] c = "GameMode" -> <<H("RoundEnd")>>
          [] OTHER -> <<>>

\* "if tickRate == 0 { tickRate = 64.0 }"
DefaultTickRate == 64

EffectiveTickRate(rate) == IF rate = 0 THEN DefaultTickRate ELSE rate

\* The metric keys the code of collector c passes to GetMetric,
\* IncrementIntMetric or reads back before AddMetric, in any of its hooks
BurstKeys ==
    {<<"recoil", "total_error_sum">>, <<"recoil", "total_counted_bullets">>,
     <<"recoil", "burst_count">>} \cup
    {<<"recoil", weaponTypeToString(w) \o "_bullets">> : w \in Equipment}

CheatInputKeys ==
    {<<"kills", "headshot_percentage">>, <<"kills", "total_kills">>,
     <<"aiming", "p95_snap_velocity">>, <<"aiming", "snap_count">>,
     <<"reaction", "p10_reaction_time">>, <<"reaction", "reaction_samples">>,
     <<"recoil", "recoil_score">>, <<"game_info", "game_mode">>, <<"game_info", "round_count">>}

Reads(c) ==
    CASE c = "WeaponUsage" -> {<<"weapons", "total_ticks">>, <<"weapons", "knife_ticks">>,
                               <<"weapons", "non_knife_ticks">>, <<"weapons", "no_weapon_ticks">>}
      [] c = "Headshot" -> {<<"kills", "total_kills">>, <<"kills", "headshot_kills">>}
      [] c = "SnapAngle" -> {<<"aiming", "snapped_kills">>}
      [] c = "ReactionTime" -> {<<"reaction", "shots_after_fov_entry">>}
      [] c = "RecoilControl" -> BurstKeys
      [] c = "CheatDetector" -> CheatInputKeys
      [] OTHER -> {}

\* History of reads and writes: the keys present in d2 whose metric for some
\* player is new or differs from d1
AllKeys(d) ==
    UNION {UNION {{<<c, k>> : k \in DOMAIN d.Players[id].Categories[c]} :
                     c \in DOMAIN d.Players[id].Categories} : id \in DOMAIN d.Players}

ChangedKeys(d1, d2) ==
    {k \in AllKeys(d2) :
        \E id \in DOMAIN d2.Players :
            /\ HasMetric(d2.Players[id], k[1], k[2])
            /\ IF id \in DOMAIN d1.Players
               THEN IF HasMetric(d1.Players[id], k[1], k[2])
                    THEN GetMetric(d1.Players[id], k[1], k[2]) # GetMetric(d2.Players[id], k[1], k[2])
                    ELSE TRUE
               ELSE TRUE}

CollectorIndex(c) == CHOOSE i \in 1 .. Len(Collectors) : Collectors[i] = c

\* T is what a hook of collector c made of S: note what it read and wrote
Tracked(S, T, c) ==
    [T EXCEPT !.h.readers = @ \cup {<<k, CollectorIndex(c)>> : k \in Reads(c)},
              !.h.writers = @ \cup {<<k, CollectorIndex(c)>> : k \in ChangedKeys(S.ds, T.ds)}]

\* One registered handler, called with event e while CurrentFrame() is tick
RunHandler(S, h, e, tick) ==
    CASE h.kind = "Kill" /\ h.owner = "Headshot" -> Headshot_OnKill(S, e)
      [] h.kind = "Kill" /\ h.owner = "SnapAngle" -> Snap_processKill(S, e, snapTickRate)
      [] h.kind = "Kill" /\ h.owner = "ReactionTime" -> Reaction_OnKill(S, e)
      [] h.kind = "Kill" /\ h.owner = "RecoilControl" -> Recoil_OnKill(S, e)
      [] h.kind = "WeaponFire" /\ h.owner = "ReactionTime" -> Reaction_processWeaponFire(S, e, rtcTickRate)
      [] h.kind = "WeaponFire" /\ h.owner = "RecoilControl" -> Recoil_handleWeaponFire(S, e, tick)
      [] h.kind = "RoundEnd" /\ h.owner = "ReactionTime" -> Reaction_OnRoundEnd(S)
      [] h.kind = "RoundEnd" /\ h.owner = "RecoilControl" -> Recoil_OnRoundEnd(S)
      [] h.kind = "RoundEnd" /\ h.owner = "GameMode" -> GameMode_OnRoundEnd(S)
      [] OTHER -> S

\* The parser's dispatch: every handler registered for the kind, in registration order
RECURSIVE Dispatch(_, _, _, _, _)
Dispatch(S, hs, kind, e, tick) ==
    IF hs = <<>> THEN S
    ELSE IF Head(hs).kind = kind
         THEN Eval(RunHandler(S, Head(hs), e, tick),
                   LAMBDA T : Eval(Tracked(S, T, Head(hs).owner),
                                   LAMBDA U : Dispatch(U, Tail(hs), kind, e, tick)))
         ELSE Dispatch(S, Tail(hs), kind, e, tick)

RunCollectFrame(c, S, g, tick) ==
    CASE c = "WeaponUsage" -> WeaponUsage_CollectFrame(S, g)
      [] c = "SnapAngle" -> Snap_CollectFrame(S, g, tick)
      [] c = "ReactionTime" -> Reaction_CollectFrame(S, g, tick)
      [] c = "RecoilControl" -> Recoil_CollectFrame(S, tick)
      [] OTHER -> S

RunCollectFinalStats(c, S) ==
    CASE c = "WeaponUsage" -> WeaponUsage_CollectFinalStats(S)
      [] c = "Headshot" -> Headshot_CollectFinalStats(S)
      [] c = "SnapAngle" -> Snap_CollectFinalStats(S)
      [] c = "ReactionTime" -> Reaction_CollectFinalStats(S)
      [] c = "RecoilControl" -> Recoil_CollectFinalStats(S)
      [] c = "GameMode" -> GameMode_CollectFinalStats(S)
      [] c = "CheatDetector" -> Cheat_CollectFinalStats(S)
      [] OTHER -> S

-----------------------------------------------------------------------------
(* History variables *)

\* SteamIDs in play: 0 (bots, and the global entry) and the human players
IDs == 0 .. NumPlayers

NoEvent == [none |-> TRUE]

NoSample ==
    [attacker |-> 0, opponent |-> 0, entry |-> 0, fire |-> 0, deltaT |-> 0,
     fresh |-> FALSE, since |-> 0 - 1]

\* What the CheatDetector reads of every player
CheatInputs(ds) ==
    [id \in DOMAIN ds.Players |->
        [k \in CheatInputKeys |->
            <<HasMetric(ds.Players[id], k[1], k[2]), GetMetric(ds.Players[id], k[1], k[2])>>]]

HistInit ==
    [log |-> <<>>,                        \* the hook calls made, in order
     ev |-> [kind |-> "init", e |-> NoEvent],  \* the step taken last
     readers |-> {}, writers |-> {},      \* <<key, collector index>> pairs
     cheatRan |-> FALSE,                  \* CheatDetector.CollectFinalStats has run
     cheatInputs |-> <<>>,                \* CheatInputs at the time it ran
     first |-> NewDemoStats,              \* DemoStats as Analyze returned it
     served |-> [id \in IDs |-> {}],
     fovSince |-> [id \in IDs |-> EmptyMap],
     repeat |-> {},
     last |-> NoSample,
     counted |-> [id \in IDs |-> 0],
     errors |-> [id \in IDs |-> 0],
     scored |-> [id \in IDs |-> 0],
     dropped |-> [id \in IDs |-> 0],
     errDropped |-> [id \in IDs |-> 0],
     scoredDropped |-> [id \in IDs |-> 0],
     shots |-> [id \in IDs |-> 0],        \* weapon-fire events of the player
     fired |-> [id \in IDs |-> {}],       \* the weapons the player has fired
     recent |-> 0,                        \* events dispatched since Init
     added |-> <<>>,                      \* the snapshots added to the ring under study
     wrote |-> <<>>,                      \* <<id, category, key>> |-> the write made last to it
     taken |-> [id \in IDs |-> <<>>],     \* the view samples of the player, tick by tick
     snap |-> [start |-> ZeroSnapshot, end |-> ZeroSnapshot]]  \* processKill's snapshots

\* One hook called on every registered collector, in registration order
Calls(hook) == [i \in 1 .. Len(Collectors) |-> <<hook, Collectors[i]>>]

RECURSIVE Repeat(_, _)
Repeat(s, n) == IF n = 0 THEN <<>> ELSE s \o Repeat(s, n - 1)

\* Hook `hook` of the collector at index i has returned T
Logged(T, hook, i) ==
    [T EXCEPT !.h.log = Append(@, <<hook, Collectors[i]>>),
              !.h.ev = [kind |-> hook, e |-> NoEvent]]

\* The opponents in attacker a's FOV in game state g
Visible(g, a) == IF a \in g.playing THEN InFovNow(g, a) ELSE {}

\* A frame with game state g completed as frame number tick
Observe(h, g, tick) ==
    [h EXCEPT !.ev = [kind |-> "Frame", e |-> NoEvent],
              !.taken = [id \in IDs |->
                            IF id # 0 /\ id \in g.playing
                            THEN Append(h.taken[id], [Tick |-> tick, Yaw |-> g.yaw[id], Pitch |-> g.pitch[id]])
                            ELSE h.taken[id]],
              !.served = [id \in IDs |-> IF id = 0 THEN {} ELSE h.served[id] \cap Visible(g, id)],
              !.fovSince = [id \in IDs |->
                               IF id = 0 THEN EmptyMap
                               ELSE [o \in Visible(g, id) |->
                                        IF o \in DOMAIN h.fovSince[id] THEN h.fovSince[id][o] ELSE tick]]]

-----------------------------------------------------------------------------
(* Actions *)

collectorVars ==
    <<demoStats, viewBuffers, snapVelocities, entryTicks, reactionTimes, rtcTick,
      sprayStates, roundCount>>

LastCollector(i) == NextCollector(i) > Len(Collectors)

\* Analyze: collector.Setup(parser, demoStats) for the next collector
SetupStep ==
    /\ pc = "setup"
    /\ handlers' = handlers \o HandlersOf(Collectors[ci])
    /\ snapTickRate' = IF Collectors[ci] = "SnapAngle" THEN EffectiveTickRate(tickRate) ELSE snapTickRate
    /\ rtcTickRate' = IF Collectors[ci] = "ReactionTime" THEN EffectiveTickRate(tickRate) ELSE rtcTickRate
    /\ hist' = [hist EXCEPT !.log = Append(@, <<"Setup", Collectors[ci]>>),
                            !.ev = [kind |-> "Setup", e |-> NoEvent]]
    /\ pc' = IF LastCollector(ci) THEN "parse" ELSE "setup"
    /\ ci' = IF LastCollector(ci) THEN 1 ELSE NextCollector(ci)
    /\ UNCHANGED <<frame, frameCount, pending, gs, tickRate, collectorVars, results>>

\* ParseNextFrame meets a kill: the parser dispatches events.Kill
KillEvent(events, maxEvents) ==
    /\ pc = "parse"
    /\ pending < maxEvents
    /\ \E e \in events :
          \E T \in {Dispatch(Cur, handlers, "Kill", e, frame)} :
             Install([T EXCEPT !.h.ev = [kind |-> "Kill", e |-> e], !.h.recent = @ + 1])
    /\ pending' = pending + 1
    /\ UNCHANGED <<pc, ci, frame, frameCount, handlers, gs, tickRate, snapTickRate, rtcTickRate, results>>

\* ParseNextFrame meets a shot: the parser dispatches events.WeaponFire
WeaponFireEvent(events, maxEvents) ==
    /\ pc = "parse"
    /\ pending < maxEvents
    /\ \E e \in events :
          \E T \in {Dispatch(Cur, handlers, "WeaponFire", e, frame)} :
             Install([T EXCEPT !.h.ev = [kind |-> "WeaponFire", e |-> e],
                               !.h.recent = @ + 1,
                               !.h.shots[SteamID64(e.Shooter)] = @ + 1,
                               !.h.fired[SteamID64(e.Shooter)] = @ \cup {e.Weapon}])
    /\ pending' = pending + 1
    /\ UNCHANGED <<pc, ci, frame, frameCount, handlers, gs, tickRate, snapTickRate, rtcTickRate, results>>

\* ParseNextFrame meets the end of a round: the parser dispatches events.RoundEnd
RoundEndEvent(maxEvents, maxRounds) ==
    /\ pc = "parse"
    /\ pending < maxEvents
    /\ roundCount < maxRounds
    /\ \E T \in {Dispatch(Cur, handlers, "RoundEnd", NoEvent, frame)} :
          Install([T EXCEPT !.h.ev = [kind |-> "RoundEnd", e |-> NoEvent], !.h.recent = @ + 1])
    /\ pending' = pending + 1
    /\ UNCHANGED <<pc, ci, frame, frameCount, handlers, gs, tickRate, snapTickRate, rtcTickRate, results>>

\* ParseNextFrame returns (true, nil): the frame is complete
FrameParsed(states, maxFrames) ==
    /\ pc = "parse"
    /\ frame < maxFrames
    /\ \E g \in states :
          /\ gs' = g
          /\ hist' = Observe(hist, g, frame + 1)
    /\ frame' = frame + 1
    /\ pending' = 0
    /\ pc' = "collect"
    /\ ci' = 1
    /\ UNCHANGED <<frameCount, handlers, tickRate, snapTickRate, rtcTickRate, collectorVars, results>>

\* Analyze: collector.CollectFrame(parser, demoStats) for the next collector;
\* frameCount++ after the last one
CollectFrameStep ==
    /\ pc = "collect"
    /\ \E T \in {RunCollectFrame(Collectors[ci], Cur, gs, frame)} :
          \E U \in {Logged(Tracked(Cur, T, Collectors[ci]), "CollectFrame", ci)} :
             Install(U)
    /\ pc' = IF LastCollector(ci) THEN "parse" ELSE "collect"
    /\ ci' = IF LastCollector(ci) THEN 1 ELSE NextCollector(ci)
    /\ frameCount' = IF LastCollector(ci) THEN frameCount + 1 ELSE frameCount
    /\ UNCHANGED <<frame, handlers, pending, gs, tickRate, snapTickRate, rtcTickRate, results>>

\* ParseNextFrame returns an error: Analyze returns Results{} and the error
\* An Analyze that takes a frame it cannot parse for the end of the demo
SkipBadFrame ==
    /\ pc = "parse"
    /\ demoStats' = [demoStats EXCEPT !.TickCount = frameCount]
    /\ pc' = "final"
    /\ ci' = 1
    /\ hist' = [hist EXCEPT !.ev = [kind |-> "ParseError", e |-> NoEvent]]
    /\ UNCHANGED <<frame, frameCount, handlers, pending, gs, tickRate, snapTickRate, rtcTickRate,
                   viewBuffers, snapVelocities, entryTicks, reactionTimes, rtcTick,
                   sprayStates, roundCount, results>>

ParseError ==
    /\ pc = "parse"
    /\ pc' = "aborted"
    /\ results' = "error"
    /\ hist' = [hist EXCEPT !.ev = [kind |-> "ParseError", e |-> NoEvent]]
    /\ UNCHANGED <<ci, frame, frameCount, handlers, pending, gs, tickRate, snapTickRate,
                   rtcTickRate, collectorVars>>

\* ParseNextFrame returns (false, nil) on the stop command, whose frame carries
\* no game events: the loop breaks and demoStats.TickCount = frameCount
EndOfDemo ==
    /\ pc = "parse"
    /\ pending = 0
    /\ demoStats' = [demoStats EXCEPT !.TickCount = frameCount]
    /\ pc' = "final"
    /\ ci' = 1
    /\ hist' = [hist EXCEPT !.ev = [kind |-> "EndOfDemo", e |-> NoEvent]]
    /\ UNCHANGED <<frame, frameCount, handlers, pending, gs, tickRate, snapTickRate, rtcTickRate,
                   viewBuffers, snapVelocities, entryTicks, reactionTimes, rtcTick,
                   sprayStates, roundCount, results>>

\* Analyze: collector.CollectFinalStats(demoStats) for the next collector;
\* after the last one Analyze returns the Results
FinalStep ==
    /\ pc = "final"
    /\ \E T \in {RunCollectFinalStats(Collectors[ci], Cur)} :
          \E U \in {Logged(Tracked(Cur, T, Collectors[ci]), "CollectFinalStats", ci)} :
             Install([U EXCEPT !.h.cheatRan = IF Collectors[ci] = "CheatDetector" THEN TRUE ELSE @,
                               !.h.cheatInputs = IF Collectors[ci] = "CheatDetector"
                                                 THEN CheatInputs(demoStats) ELSE @,
                               !.h.first = IF LastCollector(ci) THEN U.ds ELSE @])
    /\ pc' = IF LastCollector(ci) THEN "done" ELSE "final"
    /\ ci' = IF LastCollector(ci) THEN 1 ELSE NextCollector(ci)
    /\ results' = IF LastCollector(ci) THEN "stats" ELSE results
    /\ UNCHANGED <<frame, frameCount, handlers, pending, gs, tickRate, snapTickRate, rtcTickRate>>

\* A caller runs the finalize hooks over the returned DemoStats once more,
\* in registration order
ReFinalStep ==
    /\ pc \in {"done", "refinal"}
    /\ \E T \in {RunCollectFinalStats(Collectors[ci], Cur)} :
          Install([T EXCEPT !.h.ev = [kind |-> "ReFinal", e |-> NoEvent]])
    /\ pc' = IF LastCollector(ci) THEN "redone" ELSE "refinal"
    /\ ci' = IF LastCollector(ci) THEN 1 ELSE NextCollector(ci)
    /\ UNCHANGED <<frame, frameCount, handlers, pending, gs, tickRate, snapTickRate, rtcTickRate, results>>

-----------------------------------------------------------------------------
(* The analysis of a small demo: every hook, every event kind *)

\* The state at the start of Analyze's setup loop, for a parser reporting
\* one of the tick rates
InitAnalyze(rates) ==
    /\ pc = "setup"
    /\ ci = 1
    /\ frame = 0
    /\ frameCount = 0
    /\ handlers = <<>>
    /\ pending = 0
    /\ gs = [playing |-> {}, alive |-> {}, held |-> [o \in PlayerObjs |-> "none"],
             yaw |-> [o \in PlayerObjs |-> 0], pitch |-> [o \in PlayerObjs |-> 0], fov |-> {}]
    /\ tickRate \in rates
    /\ demoStats = NewDemoStats
    /\ viewBuffers = EmptyMap
    /\ snapVelocities = EmptyMap
    /\ snapTickRate = 0
    /\ entryTicks = EmptyMap
    /\ reactionTimes = EmptyMap
    /\ rtcTick = 0
    /\ rtcTickRate = 0
    /\ sprayStates = EmptyMap
    /\ roundCount = 0
    /\ results = "none"
    /\ hist = HistInit

MaxFrames == 2
MaxEventsPerFrame == 1
MaxRounds == 1

\* Everybody playing and alive; Ts hold a gun, CTs a knife, the bot nothing;
\* player 1 looks along yaw1 and sees the opponents in sees
Game(yaw1, sees) ==
    [playing |-> PlayerObjs, alive |-> PlayerObjs,
     held |-> [o \in PlayerObjs |-> IF o = BotObj THEN "none" ELSE IF Team(o) = "T" THEN "gun" ELSE "knife"],
     yaw |-> [o \in PlayerObjs |-> IF o = 1 THEN yaw1 ELSE 0],
     pitch |-> [o \in PlayerObjs |-> 0],
     fov |-> {<<1, o>> : o \in sees}]

GameStates == {Game(0, {}), Game(30 * FP, {2})}

KillEvents ==
    {[Killer |-> 1, Victim |-> 2, IsHeadshot |-> TRUE],
     [Killer |-> BotObj, Victim |-> 2, IsHeadshot |-> FALSE],
     [Killer |-> Nil, Victim |-> 1, IsHeadshot |-> FALSE]}

FireEvents ==
    {[Shooter |-> 1, Weapon |-> "ak47", Yaw |-> 0, Pitch |-> 0],
     [Shooter |-> 2, Weapon |-> "deagle", Yaw |-> 0, Pitch |-> 0]}

\* The state in which a longer demo leaves Analyze when its frame loop ends:
\* AccFrames frames parsed; player 1 with kills = <<total, headshots>>, the
\* snap velocities snaps, reaction samples of the tick counts reacts and the
\* recoil record recoil; players 2 .. humans with nothing but weapon ticks;
\* with bot, one kill by a bot
AccFrames == 41

KillProfiles == {<<0, 0>>, <<29, 29>>, <<30, 18>>, <<40, 22>>, <<40, 40>>}

SnapProfiles == {<<>>, <<400, 400, 400, 400>>, <<300, 150, 275, 200, 250>>, <<400, 400, 400, 400, 400>>}

ReactionProfiles == {<<>>, <<3, 3, 3, 3>>, <<10, 6, 6, 6, 6>>, <<3, 3, 3, 3, 3>>}

RecoilProfiles ==
    {[sum |-> 0, bullets |-> 0, bursts |-> 0, open |-> FALSE],
     [sum |-> 0, bullets |-> 7, bursts |-> 1, open |-> FALSE],
     [sum |-> 0, bullets |-> 14, bursts |-> 2, open |-> FALSE],
     [sum |-> 700, bullets |-> 14, bursts |-> 2, open |-> FALSE],
     [sum |-> 1820, bullets |-> 14, bursts |-> 2, open |-> FALSE],
     [sum |-> 0, bullets |-> 7, bursts |-> 1, open |-> TRUE]}

RoundProfiles == {24, 31}

HumanProfiles == {1, 4}

RECURSIVE RegisteredBy(_)
RegisteredBy(n) == IF n = 0 THEN <<>> ELSE RegisteredBy(n - 1) \o HandlersOf(Collectors[n])

\* A view buffer after n frames of an unmoved view
BufferAfter(n) ==
    [Buffer |-> [i \in 1 .. ViewAngleBufferSize |->
                    [Tick |-> n - ((n - i) % ViewAngleBufferSize), Yaw |-> 0, Pitch |-> 0]],
     Index |-> n % ViewAngleBufferSize, Size |-> ViewAngleBufferSize]

\* An open burst of ten shots that followed the pattern, the last one tick ago
OpenBurst(n) ==
    [inBurst |-> TRUE, firstTick |-> n - 10, firstYawDeg |-> 0, firstPitchDeg |-> 0,
     bulletIndex |-> 10, lastFireTick |-> n - 1, weapon |-> "ak47",
     sumError |-> 0, countedBullets |-> 7]

AccWeapons(ds, humans, n) ==
    LET Step(d, id) ==
            AddPlayerMetric(
                AddPlayerMetric(GetOrCreatePlayerStatsBySteamID(d, id), id, "weapons", "total_ticks", IntegerMetric(n)),
                id, "weapons", "non_knife_ticks", IntegerMetric(n))
        named == FoldSet(Step, ds, 1 .. humans)
    IN  [named EXCEPT !.Players = [id \in DOMAIN @ |-> [@[id] EXCEPT !.Player.Name = "player"]]]

AccKills(ds, kills, bot) ==
    LET d1 == IF kills[1] > 0 THEN AddPlayerMetric(ds, 1, "kills", "total_kills", IntegerMetric(kills[1])) ELSE ds
        d2 == IF kills[2] > 0 THEN AddPlayerMetric(d1, 1, "kills", "headshot_kills", IntegerMetric(kills[2])) ELSE d1
    IN  IF bot THEN IncPlayerMetric(GetOrCreatePlayerStats(d2, BotObj), 0, "kills", "total_kills") ELSE d2

AccSnaps(ds, snaps) ==
    IF Len(snaps) > 0 THEN AddPlayerMetric(ds, 1, "aiming", "snapped_kills", IntegerMetric(Len(snaps))) ELSE ds

AccReactions(ds, reacts) ==
    IF Len(reacts) > 0
    THEN AddPlayerMetric(ds, 1, "reaction", "shots_after_fov_entry", IntegerMetric(Len(reacts))) ELSE ds

AccRecoil(ds, recoil) ==
    IF recoil.bursts > 0
    THEN AddPlayerMetric(
             AddPlayerMetric(
                 AddPlayerMetric(
                     AddPlayerMetric(ds, 1, "recoil", "total_error_sum", FloatMetric(recoil.sum)),
                     1, "recoil", "total_counted_bullets", IntegerMetric(recoil.bullets)),
                 1, "recoil", "burst_count", IntegerMetric(recoil.bursts)),
             1, "recoil", "ak47_bullets", IntegerMetric(recoil.bullets))
    ELSE ds

AccumulatedAt(rate, humans, kills, snaps, reacts, recoil, rounds, bot) ==
    LET n == AccFrames
        open == IF recoil.open THEN 7 ELSE 0
        S0 == [ds |-> NewDemoStats,
               vb |-> [id \in 1 .. humans |-> BufferAfter(n)],
               sv |-> IF Len(snaps) > 0 THEN Put(EmptyMap, 1, snaps) ELSE EmptyMap,
               et |-> [id \in 1 .. humans |-> EmptyMap],
               rt |-> IF Len(reacts) > 0
                      THEN Put(EmptyMap, 1, [i \in 1 .. Len(reacts) |-> ReactionDeltaT(reacts[i], 0, rate)])
                      ELSE EmptyMap,
               tick |-> n,
               ss |-> IF recoil.open THEN Put(EmptyMap, 1, OpenBurst(n)) ELSE EmptyMap,
               rc |-> rounds,
               h |-> [HistInit EXCEPT
                         !.log = Calls("Setup") \o Repeat(Calls("CollectFrame"), n),
                         !.ev = [kind |-> "EndOfDemo", e |-> NoEvent],
                         !.taken = [id \in IDs |->
                                       IF id \in 1 .. humans
                                       THEN [i \in 1 .. n |-> [Tick |-> i, Yaw |-> 0, Pitch |-> 0]]
                                       ELSE <<>>],
                         !.counted[1] = recoil.bullets + open,
                         !.errors[1] = recoil.sum,
                         !.scored[1] = recoil.bursts + (IF recoil.open THEN 1 ELSE 0),
                         !.shots[1] = 10 * (recoil.bursts + (IF recoil.open THEN 1 ELSE 0)),
                         !.fired[1] = IF recoil.bursts > 0 \/ recoil.open THEN {"ak47"} ELSE {}]]
        Stage(S, ds, c) == Eval(ds, LAMBDA d : Tracked(S, [S EXCEPT !.ds = d], c))
    IN  Eval(S0, LAMBDA T0 :
        Eval(Stage(T0, AccWeapons(T0.ds, humans, n), "WeaponUsage"), LAMBDA T1 :
        Eval(Stage(T1, AccKills(T1.ds, kills, bot), "Headshot"), LAMBDA T2 :
        Eval(Stage(T2, AccSnaps(T2.ds, snaps), "SnapAngle"), LAMBDA T3 :
        Eval(Stage(T3, AccReactions(T3.ds, reacts), "ReactionTime"), LAMBDA T4 :
        Eval(Stage(T4, AccRecoil(T4.ds, recoil), "RecoilControl"), LAMBDA T5 :
             [T5 EXCEPT !.ds.TickCount = n]))))))

\* The same for a demo at the default tick rate
Accumulated(humans, kills, snaps, reacts, recoil, rounds, bot) ==
    AccumulatedAt(DefaultTickRate, humans, kills, snaps, reacts, recoil, rounds, bot)

\* Analyze between its frame loop and its finalize loop, the collectors
\* holding state S, for a parser that reported tick rate `rate`
InitFinalize(S, rate) ==
    /\ pc = "final"
    /\ ci = 1
    /\ frame = AccFrames
    /\ frameCount = AccFrames
    /\ handlers = RegisteredBy(Len(Collectors))
    /\ pending = 0
    /\ gs = [playing |-> {}, alive |-> {}, held |-> [o \in PlayerObjs |-> "none"],
             yaw |-> [o \in PlayerObjs |-> 0], pitch |-> [o \in PlayerObjs |-> 0], fov |-> {}]
    /\ tickRate = rate
    /\ snapTickRate = EffectiveTickRate(rate)
    /\ rtcTickRate = EffectiveTickRate(rate)
    /\ results = "none"
    /\ \E T \in {S} :
          /\ demoStats = T.ds
          /\ viewBuffers = T.vb
          /\ snapVelocities = T.sv
          /\ entryTicks = T.et
          /\ reactionTimes = T.rt
          /\ rtcTick = T.tick
          /\ sprayStates = T.ss
          /\ roundCount = T.rc
          /\ hist = T.h

InitAccumulated ==
    \E humans \in HumanProfiles, kills \in KillProfiles, snaps \in SnapProfiles,
       reacts \in ReactionProfiles, recoil \in RecoilProfiles, rounds \in RoundProfiles,
       bot \in BOOLEAN :
       /\ Len(snaps) <= kills[1]
       /\ InitFinalize(Accumulated(humans, kills, snaps, reacts, recoil, rounds, bot), 0)

\* An analysis starts at Analyze's setup loop; the analyses of longer demos
\* are entered where their frame loop has ended
Init ==
    \/ InitAnalyze({0, 128})
    \/ InitAccumulated

Next ==
    \/ SetupStep
    \/ KillEvent(KillEvents, MaxEventsPerFrame)
    \/ WeaponFireEvent(FireEvents, MaxEventsPerFrame)
    \/ RoundEndEvent(MaxEventsPerFrame, MaxRounds)
    \/ FrameParsed(GameStates, MaxFrames)
    \/ CollectFrameStep
    \/ ParseError
    \/ EndOfDemo
    \/ FinalStep
    \/ ReFinalStep

Spec == Init /\ [][Next]_vars

-----------------------------------------------------------------------------
(* The reaction-time detector over one engagement late in a demo *)

ReactionFrames == 8
MaxSamples == 6

\* Player 1 looks on; player 2 is or is not in player 1's FOV
ReactionStates == {Game(0, {}), Game(0, {2})}

\* Player 1 fires a pistol
ReactionFires == {[Shooter |-> 1, Weapon |-> "deagle", Yaw |-> 0, Pitch |-> 0]}

\* The tick counts of the reaction samples player 1 has from earlier rounds
EarlierReactions == {<<>>, <<10, 10, 10, 10>>}

NoRecoil == [sum |-> 0, bullets |-> 0, bursts |-> 0, open |-> FALSE]

\* Analyze's frame loop after AccFrames frames, nobody in anybody's FOV, for
\* a parser reporting one of the tick rates 0 (the default applies) and 64
InitEngagement(rates, reacts, recoil) ==
    /\ pc = "parse"
    /\ ci = 1
    /\ frame = AccFrames
    /\ frameCount = AccFrames
    /\ handlers = RegisteredBy(Len(Collectors))
    /\ pending = 0
    /\ gs = Game(0, {})
    /\ tickRate \in rates
    /\ snapTickRate = DefaultTickRate
    /\ rtcTickRate = DefaultTickRate
    /\ results = "none"
    /\ \E S \in {Accumulated(NumPlayers, <<0, 0>>, <<>>, reacts, recoil, 0, FALSE)} :
          /\ demoStats = [S.ds EXCEPT !.TickCount = 0]
          /\ viewBuffers = S.vb
          /\ snapVelocities = S.sv
          /\ entryTicks = S.et
          /\ reactionTimes = S.rt
          /\ rtcTick = S.tick
          /\ sprayStates = S.ss
          /\ roundCount = S.rc
          /\ hist = [S.h EXCEPT !.ev = [kind |-> "CollectFrame", e |-> NoEvent]]

InitReaction == \E reacts \in EarlierReactions : InitEngagement({0, DefaultTickRate}, reacts, NoRecoil)

\* A shot, as long as the attacker has fewer than MaxSamples samples
ReactionShot ==
    /\ 1 \in DOMAIN reactionTimes => Len(reactionTimes[1]) < MaxSamples
    /\ WeaponFireEvent(ReactionFires, MaxEventsPerFrame)

NextReaction ==
    \/ ReactionShot
    \/ FrameParsed(ReactionStates, AccFrames + ReactionFrames)
    \/ CollectFrameStep
    \/ EndOfDemo
    \/ FinalStep

SpecReaction == InitReaction /\ [][NextReaction]_vars

-----------------------------------------------------------------------------
(* The reaction-time detector late in a long stay in the FOV, 16-tick demo *)

LongStayFrames == 2

\* The tick at which player 2 entered player 1's FOV, not to leave it since:
\* 32 ticks (2000 ms) ago, 31 ticks ago, in the last frame
LongStayEntries == {AccFrames - 32, AccFrames - 31, AccFrames - 1}

\* Analyze's frame loop after AccFrames frames of a demo of 16 ticks a
\* second; player 1 has not fired yet
InitLongStay ==
    /\ pc = "parse"
    /\ ci = 1
    /\ frame = AccFrames
    /\ frameCount = AccFrames
    /\ handlers = RegisteredBy(Len(Collectors))
    /\ pending = 0
    /\ gs = Game(0, {2})
    /\ tickRate = 16
    /\ snapTickRate = EffectiveTickRate(tickRate)
    /\ rtcTickRate = EffectiveTickRate(tickRate)
    /\ results = "none"
    /\ \E entry \in LongStayEntries :
          \E S \in {AccumulatedAt(16, NumPlayers, <<0, 0>>, <<>>, <<>>, NoRecoil, 0, FALSE)} :
             /\ demoStats = [S.ds EXCEPT !.TickCount = 0]
             /\ viewBuffers = S.vb
             /\ snapVelocities = S.sv
             /\ entryTicks = [S.et EXCEPT ![1] = Put(EmptyMap, 2, entry)]
             /\ reactionTimes = S.rt
             /\ rtcTick = S.tick
             /\ sprayStates = S.ss
             /\ roundCount = S.rc
             /\ hist = [S.h EXCEPT !.ev = [kind |-> "CollectFrame", e |-> NoEvent],
                                   !.fovSince[1] = Put(EmptyMap, 2, entry)]

NextLongStay ==
    \/ ReactionShot
    \/ FrameParsed(ReactionStates, AccFrames + LongStayFrames)
    \/ CollectFrameStep
    \/ EndOfDemo
    \/ FinalStep

SpecLongStay == InitLongStay /\ [][NextLongStay]_vars

-----------------------------------------------------------------------------
(* The recoil detector over one engagement late in a demo *)

RecoilFrames == 6
MaxRecent == 3

\* Nobody sees anybody
RecoilStates == {Game(0, {})}

\* Player 1's recoil record before the engagement: none; a burst of ten shots
\* along the pattern still open; the same after an earlier burst of that kind
RecoilEngagements ==
    {NoRecoil,
     [sum |-> 0, bullets |-> 0, bursts |-> 0, open |-> TRUE],
     [sum |-> 0, bullets |-> 7, bursts |-> 1, open |-> TRUE]}

\* Player 1 fires an AK-47, aiming where bullet 11 of a burst from (0, 0)
\* belongs or still at (0, 0), or fires a pistol; player 2 fires a pistol
RecoilFires ==
    {[Shooter |-> 1, Weapon |-> "ak47",
      Yaw |-> 0 - getRecoilOffsets("ak47", 11).yaw, Pitch |-> 0 - getRecoilOffsets("ak47", 11).pitch],
     [Shooter |-> 1, Weapon |-> "ak47", Yaw |-> 0, Pitch |-> 0],
     [Shooter |-> 1, Weapon |-> "deagle", Yaw |-> 0, Pitch |-> 0],
     [Shooter |-> 2, Weapon |-> "deagle", Yaw |-> 0, Pitch |-> 0]}

\* Player 2 kills player 1
RecoilKills == {[Killer |-> 2, Victim |-> 1, IsHeadshot |-> FALSE]}

InitRecoil == \E recoil \in RecoilEngagements : InitEngagement({DefaultTickRate}, <<>>, recoil)

RecoilShot ==
    /\ hist.recent < MaxRecent
    /\ WeaponFireEvent(RecoilFires, MaxEventsPerFrame)

\* A kill of a player the detector holds burst state of
RecoilKill ==
    /\ hist.recent < MaxRecent
    /\ \E e \in RecoilKills : SteamID64(e.Victim) \in DOMAIN sprayStates
    /\ KillEvent(RecoilKills, MaxEventsPerFrame)

RecoilRoundEnd ==
    /\ hist.recent < MaxRecent
    /\ RoundEndEvent(MaxEventsPerFrame, MaxRounds)

NextRecoil ==
    \/ RecoilShot
    \/ RecoilKill
    \/ RecoilRoundEnd
    \/ FrameParsed(RecoilStates, AccFrames + RecoilFrames)
    \/ CollectFrameStep
    \/ EndOfDemo
    \/ FinalStep

SpecRecoil == InitRecoil /\ [][NextRecoil]_vars

-----------------------------------------------------------------------------
(* The finalize phase over the records of a 100-tick demo *)

\* Player 1's kills = <<total, headshots>>: 80%, 60% and 55% headshots at or
\* over the headshot guard, and 15 and 16 kills either side of the Wingman rule
VerdictKills == {<<40, 32>>, <<30, 18>>, <<40, 22>>, <<16, 16>>, <<15, 15>>}

\* Player 1's snap velocities in the order recorded: none, five of
\* 4 degrees/ms, five different ones, two, one
VerdictSnaps ==
    {<<>>, <<400, 400, 400, 400, 400>>, <<300, 150, 275, 200, 250>>, <<250, 100>>, <<150>>}

\* Player 1's reaction samples in ticks of 10 ms: none; four; five with a
\* 10th percentile of 90 ms, of 50 ms, of 110 ms and of 130 ms
VerdictReactions ==
    {<<>>, <<5, 5, 5, 5>>, <<12, 9, 12, 12, 12>>, <<5, 5, 5, 5, 5>>,
     <<11, 11, 11, 11, 11>>, <<13, 13, 13, 13, 13>>}

InitVerdict ==
    \E humans \in HumanProfiles, kills \in VerdictKills, snaps \in VerdictSnaps,
       reacts \in VerdictReactions, rounds \in RoundProfiles :
       InitFinalize(AccumulatedAt(100, humans, kills, snaps, reacts, NoRecoil, rounds, FALSE), 100)

NextVerdict == FinalStep

SpecVerdict == InitVerdict /\ [][NextVerdict]_vars

-----------------------------------------------------------------------------
(* Weapon usage over a short demo *)

WeaponFrames == 3

\* The players in `playing` take part; player 1 holds `held1`
Holding(held1, playing) ==
    [Game(0, {}) EXCEPT !.held[1] = held1, !.playing = playing, !.alive = playing]

\* Player 1 alone or with everybody else, holding a gun, a knife or nothing
WeaponStates == {Holding(h, P) : h \in {"gun", "knife", "none"}, P \in {{1}, PlayerObjs}}

InitWeapons == InitAnalyze({DefaultTickRate})

NextWeapons ==
    \/ SetupStep
    \/ FrameParsed(WeaponStates, WeaponFrames)
    \/ CollectFrameStep
    \/ EndOfDemo
    \/ FinalStep

SpecWeapons == InitWeapons /\ [][NextWeapons]_vars

-----------------------------------------------------------------------------
(* Kill events over a short demo *)

KillFrames == 1
MaxKills == 2

\* Everybody plays, nobody sees anybody
KillStates == {Game(0, {})}

\* Every kill event the parser can hand out: killer and victim nil, a human
\* of either team or the bot, flagged as a headshot or not
AllKills ==
    [Killer : PlayerObjs \cup {Nil}, Victim : PlayerObjs \cup {Nil}, IsHeadshot : BOOLEAN]

InitKills == InitAnalyze({DefaultTickRate})

\* One more kill event, up to MaxKills of them
KillShot ==
    /\ hist.recent < MaxKills
    /\ KillEvent(AllKills, MaxKills)

NextKills ==
    \/ SetupStep
    \/ KillShot
    \/ FrameParsed(KillStates, KillFrames)
    \/ CollectFrameStep
    \/ EndOfDemo
    \/ FinalStep

SpecKills == InitKills /\ [][NextKills]_vars

-----------------------------------------------------------------------------
(* One RingBuffer, filled snapshot by snapshot *)

MaxRingSize == 3
MaxAdds == 7

\* The snapshot of tick `tick`: the view along one of two yaws
RingSamples(tick) == {[Tick |-> tick, Yaw |-> yaw, Pitch |-> 0] : yaw \in {0, 90 * FP}}

\* A buffer fresh from NewRingBuffer, held as player 1's view history; no
\* demo is being analyzed
InitRing ==
    /\ pc = "ring"
    /\ ci = 1
    /\ frame = 0
    /\ frameCount = 0
    /\ handlers = <<>>
    /\ pending = 0
    /\ gs = Game(0, {})
    /\ tickRate = DefaultTickRate
    /\ demoStats = NewDemoStats
    /\ \E size \in 1 .. MaxRingSize : viewBuffers = Put(EmptyMap, 1, NewRingBuffer(size))
    /\ snapVelocities = EmptyMap
    /\ snapTickRate = DefaultTickRate
    /\ entryTicks = EmptyMap
    /\ reactionTimes = EmptyMap
    /\ rtcTick = 0
    /\ rtcTickRate = DefaultTickRate
    /\ sprayStates = EmptyMap
    /\ roundCount = 0
    /\ results = "none"
    /\ hist = HistInit

\* rb.Add(snapshot) with the snapshot of the next tick
RingAddStep ==
    /\ pc = "ring"
    /\ Len(hist.added) < MaxAdds
    /\ \E snapshot \in RingSamples(Len(hist.added) + 1) :
          /\ viewBuffers' = [viewBuffers EXCEPT ![1] = RingAdd(@, snapshot)]
          /\ hist' = [hist EXCEPT !.added = Append(@, snapshot),
                                  !.ev = [kind |-> "Add", e |-> NoEvent]]
    /\ UNCHANGED <<pc, ci, frame, frameCount, handlers, pending, gs, tickRate, demoStats,
                   snapVelocities, snapTickRate, entryTicks, reactionTimes, rtcTick,
                   rtcTickRate, sprayStates, roundCount, results>>

NextRing == RingAddStep

SpecRing == InitRing /\ [][NextRing]_vars

-----------------------------------------------------------------------------
(* The finalize loop over two players with recoil totals of their own *)

\* Totals of 14 counted bullets in 2 bursts whose mean error is 0, 0.30,
\* 0.31, 0.65, 0.99, 1.00 and 1.30 degrees; totals below the sample guard
\* (too few bullets, too few bursts), totals just at it, and no burst at all
EfficiencyProfiles ==
    {[sum |-> s, bullets |-> 14, bursts |-> 2, open |-> FALSE] :
         s \in {0, 14 * perfectThreshold, 14 * (perfectThreshold + 1), 14 * 65,
                14 * (FP - 1), 14 * FP, 14 * 130}}
        \cup {[sum |-> 0, bullets |-> 7, bursts |-> 1, open |-> FALSE],
               [sum |-> 0, bullets |-> 14, bursts |-> 1, open |-> FALSE],
               [sum |-> 0, bullets |-> 9, bursts |-> 2, open |-> FALSE],
               [sum |-> 270, bullets |-> 10, bursts |-> 2, open |-> FALSE],
               [sum |-> 0, bullets |-> 0, bursts |-> 0, open |-> FALSE]}

\* finalizeBurst's totals, as left on player id by bursts finalized earlier
WithRecoil(S, id, recoil) ==
    LET d1 == AddPlayerMetric(S.ds, id, "recoil", "total_error_sum", FloatMetric(recoil.sum))
        d2 == AddPlayerMetric(d1, id, "recoil", "total_counted_bullets", IntegerMetric(recoil.bullets))
        d3 == AddPlayerMetric(d2, id, "recoil", "burst_count", IntegerMetric(recoil.bursts))
        d4 == AddPlayerMetric(d3, id, "recoil", "ak47_bullets", IntegerMetric(recoil.bullets))
    IN  IF recoil.bursts = 0 THEN S
        ELSE
        [S EXCEPT !.ds = d4,
                  !.h.counted[id] = recoil.bullets,
                  !.h.errors[id] = recoil.sum,
                  !.h.scored[id] = recoil.bursts,
                  !.h.shots[id] = 10 * recoil.bursts,
                  !.h.fired[id] = {"ak47"}]

InitEfficiency ==
    \E first \in EfficiencyProfiles, second \in EfficiencyProfiles :
       InitFinalize(WithRecoil(Accumulated(NumPlayers, <<0, 0>>, <<>>, <<>>, first, 24, FALSE),
                               2, second), 0)

NextEfficiency == FinalStep

SpecEfficiency == InitEfficiency /\ [][NextEfficiency]_vars

-----------------------------------------------------------------------------
(* The metrics store on its own: the calls a collector can make on it *)

MaxStoreOps == 4

StorePlayers == {1, 2}
StoreCategories == {"kills", "recoil"}
StoreKeys == {"total_kills", "burst_count"}
StoreMetrics == {IntegerMetric(5), FloatMetric(FP), StringMetric("Wingman")}

InitStore ==
    /\ pc = "store"
    /\ ci = 1
    /\ frame = 0
    /\ frameCount = 0
    /\ handlers = <<>>
    /\ pending = 0
    /\ gs = Game(0, {})
    /\ tickRate = DefaultTickRate
    /\ demoStats = NewDemoStats
    /\ viewBuffers = EmptyMap
    /\ snapVelocities = EmptyMap
    /\ snapTickRate = DefaultTickRate
    /\ entryTicks = EmptyMap
    /\ reactionTimes = EmptyMap
    /\ rtcTick = 0
    /\ rtcTickRate = DefaultTickRate
    /\ sprayStates = EmptyMap
    /\ roundCount = 0
    /\ results = "none"
    /\ hist = HistInit

StoreUnchanged ==
    UNCHANGED <<pc, ci, frame, frameCount, handlers, pending, gs, tickRate, viewBuffers,
                snapVelocities, snapTickRate, entryTicks, reactionTimes, rtcTick,
                rtcTickRate, sprayStates, roundCount, results>>

\* The write `op` noted as the last one made to the pair t
Wrote(h, t, op, metric) ==
    Put(h.wrote, t, [op |-> op, metric |-> metric,
                     n |-> IF t \in DOMAIN h.wrote THEN h.wrote[t].n + 1 ELSE 1])

StoreCall(kind, id, category, key, metric) ==
    [kind |-> kind, e |-> [id |-> id, category |-> category, key |-> key, metric |-> metric]]

\* ds.GetOrCreatePlayerStatsBySteamID(id)
StoreGetOrCreate ==
    /\ pc = "store"
    /\ hist.recent < MaxStoreOps
    /\ \E id \in StorePlayers :
          /\ demoStats' = GetOrCreatePlayerStatsBySteamID(demoStats, id)
          /\ hist' = [hist EXCEPT !.recent = @ + 1,
                                  !.ev = StoreCall("GetOrCreate", id, "", "", ZeroMetric)]
    /\ StoreUnchanged

\* ds.Players[id].AddMetric(category, key, metric)
StoreAddMetric ==
    /\ pc = "store"
    /\ hist.recent < MaxStoreOps
    /\ \E id \in DOMAIN demoStats.Players, category \in StoreCategories, key \in StoreKeys,
          metric \in StoreMetrics :
          /\ demoStats' = AddPlayerMetric(demoStats, id, category, key, metric)
          /\ hist' = [hist EXCEPT !.recent = @ + 1,
                                  !.ev = StoreCall("AddMetric", id, category, key, metric),
                                  !.wrote = Wrote(hist, <<id, category, key>>, "AddMetric", metric)]
    /\ StoreUnchanged

\* ds.Players[id].IncrementIntMetric(category, key)
StoreIncrementInt ==
    /\ pc = "store"
    /\ hist.recent < MaxStoreOps
    /\ \E id \in DOMAIN demoStats.Players, category \in StoreCategories, key \in StoreKeys :
          /\ demoStats' = IncPlayerMetric(demoStats, id, category, key)
          /\ hist' = [hist EXCEPT !.recent = @ + 1,
                                  !.ev = StoreCall("IncrementIntMetric", id, category, key, ZeroMetric),
                                  !.wrote = Wrote(hist, <<id, category, key>>,
                                                  "IncrementIntMetric", ZeroMetric)]
    /\ StoreUnchanged

NextStore == StoreGetOrCreate \/ StoreAddMetric \/ StoreIncrementInt

SpecStore == InitStore /\ [][NextStore]_vars

-----------------------------------------------------------------------------
(* Kills after a view history: full, or of a player who has just joined *)

SnapFrames == 3
MaxSnapKills == 1

\* Player 1 looks along yaw 0 or 30 degrees; nobody sees anybody
SnapStates == {Game(0, {}), Game(30 * FP, {})}

\* Player 1 kills player 2 or the bot of their own team, player 2 kills player 1
SnapKills ==
    {[Killer |-> 1, Victim |-> 2, IsHeadshot |-> FALSE],
     [Killer |-> 1, Victim |-> BotObj, IsHeadshot |-> FALSE],
     [Killer |-> 2, Victim |-> 1, IsHeadshot |-> FALSE]}

InitSnap ==
    /\ pc = "parse"
    /\ ci = 1
    /\ frame = AccFrames
    /\ frameCount = AccFrames
    /\ handlers = RegisteredBy(Len(Collectors))
    /\ pending = 0
    /\ gs = Game(0, {})
    /\ tickRate = DefaultTickRate
    /\ snapTickRate = DefaultTickRate
    /\ rtcTickRate = DefaultTickRate
    /\ results = "none"
    /\ \E joined \in BOOLEAN :
          \E S \in {Accumulated(IF joined THEN NumPlayers ELSE 0, <<0, 0>>, <<>>, <<>>, NoRecoil, 0, FALSE)} :
             /\ demoStats = [S.ds EXCEPT !.TickCount = 0]
             /\ viewBuffers = S.vb
             /\ snapVelocities = S.sv
             /\ entryTicks = S.et
             /\ reactionTimes = S.rt
             /\ rtcTick = S.tick
             /\ sprayStates = S.ss
             /\ roundCount = S.rc
             /\ hist = [S.h EXCEPT !.ev = [kind |-> "CollectFrame", e |-> NoEvent]]

SnapKill ==
    /\ hist.recent < MaxSnapKills
    /\ KillEvent(SnapKills, MaxEventsPerFrame)

NextSnap ==
    \/ SnapKill
    \/ FrameParsed(SnapStates, AccFrames + SnapFrames)
    \/ CollectFrameStep
    \/ EndOfDemo
    \/ FinalStep

SpecSnap == InitSnap /\ [][NextSnap]_vars

-----------------------------------------------------------------------------
(* FOV tracking: players see each other, fire, die and respawn *)

FovFrames == 3

\* The lines of sight that pass "length > 0 && dotProduct >= cos(FOV/2)"
\* at a tick: at most two, from a human player to any other player
Sightlines == {p \in HumanObjs \X PlayerObjs : p[1] # p[2]}
FovSets == {F \in SUBSET Sightlines : Cardinality(F) <= 2}

FovGame(alive, fov) == [Game(0, {}) EXCEPT !.alive = alive, !.fov = fov]

FovKills ==
    {[Killer |-> 1, Victim |-> 2, IsHeadshot |-> FALSE],
     [Killer |-> 2, Victim |-> 1, IsHeadshot |-> FALSE],
     [Killer |-> Nil, Victim |-> 2, IsHeadshot |-> FALSE]}

FovFires ==
    {[Shooter |-> 1, Weapon |-> "deagle", Yaw |-> 0, Pitch |-> 0],
     [Shooter |-> 2, Weapon |-> "deagle", Yaw |-> 0, Pitch |-> 0]}

InitFov == InitEngagement({DefaultTickRate}, <<>>, NoRecoil)

\* A live player is killed, by a live player or by the world
FovKill ==
    KillEvent({e \in FovKills : e.Victim \in gs.alive /\ (e.Killer = Nil \/ e.Killer \in gs.alive)},
              MaxEventsPerFrame)

\* A live player fires
FovShot == WeaponFireEvent({e \in FovFires : e.Shooter \in gs.alive}, MaxEventsPerFrame)

\* Who is alive when the frame completes: the victim of the frame's kill is
\* dead, the dead stay dead, and everybody is alive again after a round end
StillAlive ==
    IF hist.ev.kind = "RoundEnd" THEN PlayerObjs
    ELSE IF hist.ev.kind = "Kill" THEN gs.alive \ {hist.ev.e.Victim}
    ELSE gs.alive

\* Everybody stays in Playing(), with any lines of sight
FovFrame == FrameParsed({FovGame(StillAlive, fov) : fov \in FovSets}, AccFrames + FovFrames)

NextFov ==
    \/ FovKill
    \/ FovShot
    \/ RoundEndEvent(MaxEventsPerFrame, MaxRounds)
    \/ FovFrame
    \/ CollectFrameStep
    \/ EndOfDemo
    \/ FinalStep

SpecFov == InitFov /\ [][NextFov]_vars

-----------------------------------------------------------------------------
(* Bursts in progress: player 1 arrives in the middle of a burst *)

BurstFrames == 3
MaxBurstShots == 2

\* A burst of `index` shots of a weapon along its pattern from (0, 0), the
\* last of them 5 ticks ago
BurstAt(index, weapon) ==
    [inBurst |-> TRUE, firstTick |-> AccFrames - 4 - index, firstYawDeg |-> 0, firstPitchDeg |-> 0,
     bulletIndex |-> index, lastFireTick |-> AccFrames - 5, weapon |-> weapon,
     sumError |-> 0, countedBullets |-> Max(0, Min(index, maxBulletIdx) - (minBurstSize - 1))]

\* The AK-47 and the M4A4 have a pattern table (of 30 and of 20 bullets), the
\* MP7 has none
BurstStarts ==
    {BurstAt(index, weapon) :
         index \in {minBurstSize - 2, minBurstSize - 1, maxBulletIdx - 1, maxBulletIdx},
         weapon \in {"ak47", "m4a4", "mp7"}}

\* The state S with `burst` in progress for player id
WithOpenBurst(S, id, burst) ==
    [S EXCEPT !.ss = Put(S.ss, id, burst),
              !.h.counted[id] = @ + burst.countedBullets,
              !.h.errors[id] = @ + burst.sumError,
              !.h.scored[id] = IF burst.countedBullets > 0 THEN @ + 1 ELSE @,
              !.h.shots[id] = @ + burst.bulletIndex,
              !.h.fired[id] = @ \cup {burst.weapon}]

\* Player 1 fires an AK-47 aiming 1 degree off (0, 0), or aiming where bullet
\* 4 of an AK-47 burst from (0, 0) belongs, the yaw given as an angle of
\* 0..360 degrees; player 2 fires an MP7
BurstFires ==
    {[Shooter |-> 1, Weapon |-> "ak47", Yaw |-> FP, Pitch |-> 0],
     [Shooter |-> 1, Weapon |-> "ak47", Yaw |-> 360 * FP - getRecoilOffsets("ak47", 4).yaw,
      Pitch |-> 0 - getRecoilOffsets("ak47", 4).pitch],
     [Shooter |-> 2, Weapon |-> "mp7", Yaw |-> 0, Pitch |-> 0]}

InitBurst ==
    /\ pc = "parse"
    /\ ci = 1
    /\ frame = AccFrames
    /\ frameCount = AccFrames
    /\ handlers = RegisteredBy(Len(Collectors))
    /\ pending = 0
    /\ gs = Game(0, {})
    /\ tickRate = DefaultTickRate
    /\ snapTickRate = DefaultTickRate
    /\ rtcTickRate = DefaultTickRate
    /\ results = "none"
    /\ \E recoil \in {NoRecoil, [sum |-> 0, bullets |-> 7, bursts |-> 1, open |-> FALSE]},
          burst \in BurstStarts :
          \E S \in {WithOpenBurst(Accumulated(NumPlayers, <<0, 0>>, <<>>, <<>>, recoil, 0, FALSE),
                                   1, burst)} :
             /\ demoStats = [S.ds EXCEPT !.TickCount = 0]
             /\ viewBuffers = S.vb
             /\ snapVelocities = S.sv
             /\ entryTicks = S.et
             /\ reactionTimes = S.rt
             /\ rtcTick = S.tick
             /\ sprayStates = S.ss
             /\ roundCount = S.rc
             /\ hist = [S.h EXCEPT !.ev = [kind |-> "CollectFrame", e |-> NoEvent]]

BurstShot ==
    /\ hist.recent < MaxBurstShots
    /\ WeaponFireEvent(BurstFires, MaxEventsPerFrame)

NextBurst ==
    \/ BurstShot
    \/ FrameParsed(RecoilStates, AccFrames + BurstFrames)
    \/ CollectFrameStep
    \/ EndOfDemo
    \/ FinalStep

SpecBurst == InitBurst /\ [][NextBurst]_vars

-----
(* Properties of the pipeline *)

\* The hook calls of a complete analysis of n frames
Schedule(n) == Calls("Setup") \o Repeat(Calls("CollectFrame"), n) \o Calls("CollectFinalStats")

IsPrefix(s, t) == Len(s) <= Len(t) /\ SubSeq(t, 1, Len(s)) = s

\* C1: In Analyze, when every frame parses without error, Setup is called
\* exactly once on every registered collector, in registration order, before
\* any frame is processed; for each frame CollectFrame is called exactly once
\* on every collector in registration order; CollectFinalStats is called
\* exactly once on every collector, in registration order, and only after the
\* CollectFrame calls of the last frame. The calls made so far are always a
\* prefix of that schedule for the frames parsed so far, every frame is
\* awaited with all Setups and all earlier CollectFrames done, and the
\* returned analysis has made exactly the schedule's calls.
C1_HookSchedule ==
    /\ IsPrefix(hist.log, Schedule(frame))
    /\ pc = "parse" => hist.log = Calls("Setup") \o Repeat(Calls("CollectFrame"), frame)
    /\ results = "stats" => hist.log = Schedule(frameCount) /\ frameCount = frame

\* A returned analysis of MaxFrames frames
C1_Witness == pc = "done" /\ results = "stats" /\ frameCount = MaxFrames /\ Len(hist.log) = Len(Collectors) * (MaxFrames + 2)

\* C2: In the default pipeline built by NewAnalyzer no collector's hook ever
\* reads a metric that a collector registered later writes: whenever a key
\* has a reader and a writer, the writer is registered no later than the
\* reader. And every metric the CheatDetector reads at finalize already has
\* its final value: once CheatDetector.CollectFinalStats has run, the nine
\* metrics it reads are, for every player, what they were when it read them.
C2_NoForwardRead ==
    /\ \A r \in hist.readers : \A w \in hist.writers : r[1] = w[1] => w[2] <= r[2]
    /\ hist.cheatRan => CheatInputs(demoStats) = hist.cheatInputs

\* The CheatDetector has read all nine metrics of a player after earlier
\* collectors wrote each of them at finalize
C2_Witness ==
    /\ pc = "done"
    /\ hist.cheatRan
    /\ \A k \in CheatInputKeys :
          /\ <<k, CollectorIndex("CheatDetector")>> \in hist.readers
          /\ \E w \in hist.writers : w[1] = k /\ w[2] < CollectorIndex("CheatDetector")
          /\ HasMetric(demoStats.Players[1], k[1], k[2])

\* The value of an anti_cheat score of a player
AntiCheat(ps, key) == GetMetric(ps, "anti_cheat", key).FloatValue

\* C3: For any metrics the earlier collectors produced on a player, the
\* CheatDetector's hs_score, snap_score, reaction_score, recoil_score and
\* total_cheat_score lie in [0,1] and cheat_likelihood lies in [0,100].
C3_ScoresInRange ==
    \A id \in DOMAIN demoStats.Players :
        /\ \A key \in {"hs_score", "snap_score", "reaction_score", "recoil_score", "total_cheat_score"} :
              HasMetric(demoStats.Players[id], "anti_cheat", key) =>
                  AntiCheat(demoStats.Players[id], key) \in 0 .. FP
        /\ HasMetric(demoStats.Players[id], "anti_cheat", "cheat_likelihood") =>
              AntiCheat(demoStats.Players[id], "cheat_likelihood") \in 0 .. 100 * FP

\* A player with every component at 1.0 and a boosted likelihood capped at 100
C3_Witness ==
    \E id \in DOMAIN demoStats.Players :
        /\ \A key \in {"hs_score", "snap_score", "reaction_score", "recoil_score", "total_cheat_score"} :
              /\ HasMetric(demoStats.Players[id], "anti_cheat", key)
              /\ AntiCheat(demoStats.Players[id], key) = FP
        /\ HasMetric(demoStats.Players[id], "anti_cheat", "competitive_boost")
        /\ HasMetric(demoStats.Players[id], "anti_cheat", "cheat_likelihood")
        /\ AntiCheat(demoStats.Players[id], "cheat_likelihood") = 100 * FP

\* C4: After a complete run, calling every collector's CollectFinalStats a
\* second time in registration order, with no ticks or events in between,
\* leaves DemoStats as Analyze returned it: no player entry added, no metric
\* added to any player (the ID-0 global entry included), no value changed.
C4_ReFinalizeIdempotent == pc \in {"refinal", "redone"} => demoStats = hist.first

\* C10: In the CheatDetector each sample-guarded component contributes exactly
\* 0 to the weighted sum when its sample count is below its guard, whatever
\* the metric value: hs_score = 0 when total_kills < 30, snap_score = 0 when
\* snap_count < 5, reaction_score = 0 when reaction_samples < 5, a missing
\* count being 0; and total_cheat_score is the weighted sum of the stored
\* components.
C10_GuardedComponents ==
    \A id \in DOMAIN demoStats.Players :
        HasMetric(demoStats.Players[id], "anti_cheat", "total_cheat_score") =>
            /\ GetMetric(demoStats.Players[id], "kills", "total_kills").IntValue < 30 =>
                  AntiCheat(demoStats.Players[id], "hs_score") = 0
            /\ GetMetric(demoStats.Players[id], "aiming", "snap_count").IntValue < 5 =>
                  AntiCheat(demoStats.Players[id], "snap_score") = 0
            /\ GetMetric(demoStats.Players[id], "reaction", "reaction_samples").IntValue < 5 =>
                  AntiCheat(demoStats.Players[id], "reaction_score") = 0
            /\ AntiCheat(demoStats.Players[id], "total_cheat_score") =
                  (45 * AntiCheat(demoStats.Players[id], "hs_score")
                   + 25 * AntiCheat(demoStats.Players[id], "snap_score")
                   + 15 * AntiCheat(demoStats.Players[id], "reaction_score")
                   + 15 * AntiCheat(demoStats.Players[id], "recoil_score")) \div 100

\* A scored player with 29 kills, all of them headshots, four snaps of
\* 4 degrees/ms and no reaction_samples metric: all three components are 0
C10_Witness ==
    /\ 1 \in DOMAIN demoStats.Players
    /\ HasMetric(demoStats.Players[1], "anti_cheat", "total_cheat_score")
    /\ GetMetric(demoStats.Players[1], "kills", "total_kills").IntValue = 29
    /\ GetMetric(demoStats.Players[1], "kills", "headshot_percentage").FloatValue = 100 * FP
    /\ GetMetric(demoStats.Players[1], "aiming", "snap_count").IntValue = 4
    /\ GetMetric(demoStats.Players[1], "aiming", "p95_snap_velocity").FloatValue = 4 * FP
    /\ ~HasMetric(demoStats.Players[1], "reaction", "reaction_samples")
    /\ 1 \in DOMAIN reactionTimes
    /\ Len(reactionTimes[1]) = 4
    /\ AntiCheat(demoStats.Players[1], "hs_score") = 0
    /\ AntiCheat(demoStats.Players[1], "snap_score") = 0
    /\ AntiCheat(demoStats.Players[1], "reaction_score") = 0

\* C5: After an attacker's weapon-fire event has been processed against an
\* opponent tracked in the attacker's FOV, no further reaction-time sample is
\* recorded for that attacker against that opponent while the opponent stays
\* in the FOV without a break: no pair ever gets a second sample within one
\* stay in the FOV.
C5_OneSamplePerFovStay == hist.repeat = {}

\* The samples of attacker a at or under 100 ms
Sub100(a) == {i \in 1 .. Len(reactionTimes[a]) : reactionTimes[a][i] <= 100 * FP}

SemiAutomatic == {"deagle", "knife", "nil"}

\* Player p has fired, and only non-automatic weapons
OnlySemiAutomatic(p) == hist.fired[p] # {} /\ hist.fired[p] \subseteq SemiAutomatic

InBurst(p) == p \in DOMAIN sprayStates /\ sprayStates[p].inBurst

\* The keys of player p's recoil category
RecoilKeys(p) ==
    IF p \in DOMAIN demoStats.Players /\ "recoil" \in DOMAIN demoStats.Players[p].Categories
    THEN DOMAIN demoStats.Players[p].Categories["recoil"]
    ELSE {}

\* A recoil metric of player p, the zero Metric if there is none
Recoil(p, key) ==
    IF p \in DOMAIN demoStats.Players THEN GetMetric(demoStats.Players[p], "recoil", key) ELSE ZeroMetric

\* C6 (as stated): a weapon-fire event for a non-automatic weapon leaves the
\* burst state of every player unchanged, and a player who fires only
\* non-automatic weapons is never in-burst and has no metric in the recoil
\* category after finalize.
C6_NoRecoilMetrics ==
    [][/\ (hist'.ev.kind = "WeaponFire" /\ hist'.ev.e.Weapon \in SemiAutomatic) =>
              sprayStates' = sprayStates
       /\ \A p \in 1 .. NumPlayers :
              OnlySemiAutomatic(p)' =>
                  /\ ~InBurst(p)'
                  /\ pc' = "done" => RecoilKeys(p)' = {}]_vars

\* C6 (amended): a weapon-fire event for a non-automatic weapon leaves the
\* burst state of every player unchanged, and a player who fires only
\* non-automatic weapons is never in-burst; after finalize the recoil
\* category of such a player holds the two "insufficient data" placeholders,
\* mean_angular_error = 0 and recoil_efficiency = 0, and nothing else.
C6_OnlyPlaceholders ==
    [][/\ (hist'.ev.kind = "WeaponFire" /\ hist'.ev.e.Weapon \in SemiAutomatic) =>
              sprayStates' = sprayStates
       /\ \A p \in 1 .. NumPlayers :
              OnlySemiAutomatic(p)' =>
                  /\ ~InBurst(p)'
                  /\ pc' = "done" =>
                        /\ RecoilKeys(p)' = {"mean_angular_error", "recoil_efficiency"}
                        /\ Recoil(p, "mean_angular_error")' = FloatMetric(0)
                        /\ Recoil(p, "recoil_efficiency")' = PercentageMetric(0)]_vars

\* Player 2 has fired a pistol while player 1 was in a burst, and the run is
\* finalized: player 2 has the two placeholders
C6_Witness ==
    /\ pc = "done"
    /\ OnlySemiAutomatic(2)
    /\ hist.fired[1] = {"ak47", "deagle"}
    /\ RecoilKeys(2) = {"mean_angular_error", "recoil_efficiency"}
    /\ 2 \notin DOMAIN sprayStates

\* Player p's running recoil totals
RecoilTotals(p) ==
    [k \in {"total_error_sum", "total_counted_bullets", "burst_count"} |-> Recoil(p, k)]

\* Every bullet, degree of error and burst that was ever counted for player p
\* is in p's running totals, in p's open burst, or was discarded
RecoilAccounting(p) ==
    LET open == IF p \in DOMAIN sprayStates THEN sprayStates[p]
                ELSE [sumError |-> 0, countedBullets |-> 0]
    IN  /\ Recoil(p, "total_counted_bullets").IntValue + open.countedBullets + hist.dropped[p]
              = hist.counted[p]
        /\ Recoil(p, "total_error_sum").FloatValue + open.sumError + hist.errDropped[p]
              = hist.errors[p]
        /\ Recoil(p, "burst_count").IntValue + (IF open.countedBullets > 0 THEN 1 ELSE 0)
              + hist.scoredDropped[p] = hist.scored[p]

\* C7: A kill event whose victim has an in-progress burst removes that burst
\* state without finalizing it: the victim's total_error_sum,
\* total_counted_bullets and burst_count are unchanged by the event, and what
\* the burst had counted is discarded for good (the totals never hold more
\* than what was counted less what was discarded). A round-end event does the
\* same for the bursts of all players.
C7_DiscardedNotScored ==
    [][/\ \A p \in 1 .. NumPlayers :
              (/\ hist'.ev.kind = "Kill"
               /\ hist'.ev.e.Victim # Nil
               /\ SteamID64(hist'.ev.e.Victim) = p
               /\ InBurst(p)) =>
                  /\ p \notin DOMAIN sprayStates'
                  /\ RecoilTotals(p)' = RecoilTotals(p)
                  /\ hist'.dropped[p] = hist.dropped[p] + sprayStates[p].countedBullets
       /\ hist'.ev.kind = "RoundEnd" =>
              /\ sprayStates' = EmptyMap
              /\ \A p \in 1 .. NumPlayers :
                    /\ RecoilTotals(p)' = RecoilTotals(p)
                    /\ p \in DOMAIN sprayStates =>
                          hist'.dropped[p] = hist.dropped[p] + sprayStates[p].countedBullets
       /\ \A p \in 1 .. NumPlayers : RecoilAccounting(p)']_vars

\* Player 1, with one burst scored and a second one of 7 counted bullets
\* open, has just been killed: the totals still hold the first burst alone
C7_Witness ==
    /\ hist.ev.kind = "Kill"
    /\ hist.ev.e.Victim = 1
    /\ 1 \notin DOMAIN sprayStates
    /\ hist.counted[1] = 14
    /\ hist.dropped[1] = 7
    /\ Recoil(1, "total_counted_bullets").IntValue = 7
    /\ Recoil(1, "burst_count").IntValue = 1

\* The bullets and bursts counted for player p and not discarded
KeptBullets(p) == hist.counted[p] - hist.dropped[p]
KeptBursts(p) == hist.scored[p] - hist.scoredDropped[p]

\* C8 (as stated): a player whose only firing is one burst of 10 automatic
\* shots, each aimed at the reference angle minus the tabulated offset, gets
\* mean angular error 0, recoil_score 1.0 and the "suspiciously perfect"
\* interpretation at finalize.
C8_OneBurstOfTen ==
    (/\ pc = "done"
     /\ hist.shots[1] = 10
     /\ hist.fired[1] = {"ak47"}
     /\ hist.scored[1] = 1
     /\ hist.counted[1] = 7
     /\ hist.errors[1] = 0
     /\ hist.dropped[1] = 0) =>
        /\ {"mean_angular_error", "recoil_score", "recoil_interpretation"} \subseteq RecoilKeys(1)
        /\ Recoil(1, "mean_angular_error").FloatValue = 0
        /\ Recoil(1, "recoil_score").FloatValue = FP
        /\ Recoil(1, "recoil_interpretation").StringValue = "Suspiciously perfect recoil control"

\* C8 (amended): a player whose bursts all followed the tabulated pattern
\* exactly gets mean angular error 0, recoil_score 1.0 and the "suspiciously
\* perfect" interpretation at finalize if at least 2 bursts with together at
\* least 10 counted bullets (bullets 4 onward) were scored; one burst of 10
\* shots counts 7 bullets in 1 burst, and below the guard finalize writes
\* only the placeholders mean_angular_error = 0 and recoil_efficiency = 0.
C8_PerfectBursts ==
    pc = "done" =>
        \A p \in 1 .. NumPlayers :
            /\ (hist.errors[p] = 0 /\ KeptBullets(p) >= 10 /\ KeptBursts(p) >= 2) =>
                  /\ Recoil(p, "mean_angular_error").FloatValue = 0
                  /\ "recoil_score" \in RecoilKeys(p)
                  /\ Recoil(p, "recoil_score").FloatValue = FP
                  /\ Recoil(p, "recoil_interpretation").StringValue = "Suspiciously perfect recoil control"
            /\ (p \in DOMAIN demoStats.Players /\ (KeptBullets(p) < 10 \/ KeptBursts(p) < 2)) =>
                  /\ RecoilKeys(p) \cap {"recoil_score", "recoil_interpretation"} = {}
                  /\ Recoil(p, "mean_angular_error") = FloatMetric(0)
                  /\ Recoil(p, "recoil_efficiency") = PercentageMetric(0)

\* Two bursts along the pattern, the second one carried on to bullet 11
C8_Witness ==
    /\ pc = "done"
    /\ hist.shots[1] = 21
    /\ hist.fired[1] = {"ak47"}
    /\ hist.errors[1] = 0
    /\ hist.dropped[1] = 0
    /\ Recoil(1, "total_counted_bullets").IntValue = 15
    /\ Recoil(1, "burst_count").IntValue = 2
    /\ Recoil(1, "recoil_score").FloatValue = FP
    /\ Recoil(1, "recoil_interpretation").StringValue = "Suspiciously perfect recoil control"

-----------------------------------------------------------------------------
(* Properties of the composite scorer *)

\* The players the CheatDetector has scored
Scored == {id \in DOMAIN demoStats.Players :
              HasMetric(demoStats.Players[id], "anti_cheat", "cheat_likelihood")}

Kills(id, key) == GetMetric(demoStats.Players[id], "kills", key)

\* C11: For a player with total_kills >= 30 the stored hs_score is
\* clamp01((headshot_percentage - 55) / 20): 0 at or below 55%, 1 at or above
\* 75%, linear in between, where headshot_percentage is headshot_kills /
\* total_kills x 100; 40 kills with 32 headshot kills give hs_score = 1.0.
C11_HeadshotComponent ==
    \A id \in Scored :
        Kills(id, "total_kills").IntValue >= 30 =>
            LET pct == Kills(id, "headshot_percentage").FloatValue
                hs == AntiCheat(demoStats.Players[id], "hs_score")
            IN  /\ pct = (Kills(id, "headshot_kills").IntValue * 100 * FP)
                              \div Kills(id, "total_kills").IntValue
                /\ pct <= 55 * FP => hs = 0
                /\ pct >= 75 * FP => hs = FP
                /\ pct > 55 * FP /\ pct < 75 * FP => hs = (pct - 55 * FP) \div 20

\* Player 1 scored with 40 kills, 32 of them headshots: 80% and hs_score 1.0
C11_Witness ==
    /\ 1 \in Scored
    /\ Kills(1, "total_kills").IntValue = 40
    /\ Kills(1, "headshot_kills").IntValue = 32
    /\ Kills(1, "headshot_percentage").FloatValue = 80 * FP
    /\ AntiCheat(demoStats.Players[1], "hs_score") = FP

\* C12: For a player with at least 5 reaction samples the stored
\* reaction_score is clamp01((120 - p10_reaction_time) / 60): 0 at or above
\* 120 ms, 1 at or below 60 ms, linear in between; a 10th percentile of 90 ms
\* gives 0.5.
C12_ReactionComponent ==
    \A id \in Scored :
        GetMetric(demoStats.Players[id], "reaction", "reaction_samples").IntValue >= 5 =>
            LET p10 == GetMetric(demoStats.Players[id], "reaction", "p10_reaction_time").FloatValue
                rt == AntiCheat(demoStats.Players[id], "reaction_score")
            IN  /\ p10 >= 120 * FP => rt = 0
                /\ p10 <= 60 * FP => rt = FP
                /\ p10 > 60 * FP /\ p10 < 120 * FP => rt = (120 * FP - p10) \div 60
                /\ p10 = 90 * FP => rt = FP \div 2

\* Player 1 scored with five samples whose 10th percentile is 90 ms
C12_Witness ==
    /\ 1 \in Scored
    /\ GetMetric(demoStats.Players[1], "reaction", "reaction_samples").IntValue = 5
    /\ GetMetric(demoStats.Players[1], "reaction", "p10_reaction_time").FloatValue = 90 * FP
    /\ AntiCheat(demoStats.Players[1], "reaction_score") = FP \div 2

\* The game mode and round count the CheatDetector finds on a player
ModeOf(id) ==
    IF HasMetric(demoStats.Players[id], "game_info", "game_mode")
    THEN GetMetric(demoStats.Players[id], "game_info", "game_mode").StringValue ELSE "Competitive"

RoundsOf(id) ==
    IF HasMetric(demoStats.Players[id], "game_info", "round_count")
    THEN GetMetric(demoStats.Players[id], "game_info", "round_count").IntValue ELSE 30

\* The condition under which the 20% boost is due
BoostDue(id) ==
    \/ ModeOf(id) = "Wingman" /\ Kills(id, "total_kills").IntValue > 15
    \/ ModeOf(id) = "Competitive" /\ Kills(id, "total_kills").IntValue > 39 /\ RoundsOf(id) <= 30

Flagged(id) == GetMetric(demoStats.Players[id], "anti_cheat", "cheater").StringValue = "Yes"

VerdictKeys ==
    {"hs_score", "snap_score", "reaction_score", "recoil_score", "total_cheat_score",
     "cheater", "cheat_likelihood"}

\* C15: Once the finalize phase is over, every PlayerStats entry in DemoStats
\* has the anti_cheat metrics hs_score, snap_score, reaction_score,
\* recoil_score, total_cheat_score, cheater and cheat_likelihood, whichever
\* input metrics the entry lacks (the ID-0 entry included).
C15_VerdictOnEveryEntry ==
    pc \in {"done", "refinal", "redone"} =>
        \A id \in DOMAIN demoStats.Players :
            \A key \in VerdictKeys : HasMetric(demoStats.Players[id], "anti_cheat", key)

\* Analyze has returned; the ID-0 entry has none of the scorer's inputs but
\* the game information, and has all seven metrics; so has a player with
\* kills
C15_Witness ==
    /\ pc = "done"
    /\ 0 \in DOMAIN demoStats.Players
    /\ DOMAIN demoStats.Players[0].Categories = {"game_info", "anti_cheat"}
    /\ \A key \in VerdictKeys : HasMetric(demoStats.Players[0], "anti_cheat", key)
    /\ \E id \in DOMAIN demoStats.Players :
          /\ HasMetric(demoStats.Players[id], "kills", "total_kills")
          /\ \A key \in VerdictKeys : HasMetric(demoStats.Players[id], "anti_cheat", key)

-----------------------------------------------------------------------------
(* Properties of the weapon-usage collector *)

\* A weapons counter of a player, an absent one counting as 0
Ticks(id, key) == GetMetric(demoStats.Players[id], "weapons", key).IntValue

\* A weapons percentage of a player, an absent one counting as 0
Pct(id, key) == GetMetric(demoStats.Players[id], "weapons", key).FloatValue

WeaponPercentages == {"knife_percentage", "non_knife_percentage", "no_weapon_percentage"}

\* WeaponUsageCollector.CollectFinalStats has run
WeaponsFinal == pc = "done" \/ (pc = "final" /\ ci > 1)

\* C16: After any sequence of ticks knife_ticks + non_knife_ticks +
\* no_weapon_ticks = total_ticks for every player, an absent counter counting
\* as 0; and for every player with total_ticks > 0 the three percentages
\* written at finalize sum to 100 within [99.9, 100.1].
C16_TicksAddUp ==
    \A id \in DOMAIN demoStats.Players :
        /\ Ticks(id, "knife_ticks") + Ticks(id, "non_knife_ticks") + Ticks(id, "no_weapon_ticks")
              = Ticks(id, "total_ticks")
        /\ WeaponsFinal /\ Ticks(id, "total_ticks") > 0 =>
              LET sum == Pct(id, "knife_percentage") + Pct(id, "non_knife_percentage")
                             + Pct(id, "no_weapon_percentage")
              IN  /\ 10 * sum >= 999 * FP
                  /\ 10 * sum <= 1001 * FP

\* Player 1 finalized after one tick each with a knife, a gun and nothing:
\* three percentages of a third each
C16_Witness ==
    /\ WeaponsFinal
    /\ 1 \in DOMAIN demoStats.Players
    /\ Ticks(1, "total_ticks") = 3
    /\ Ticks(1, "knife_ticks") = 1
    /\ Ticks(1, "non_knife_ticks") = 1
    /\ Ticks(1, "no_weapon_ticks") = 1
    /\ \A key \in WeaponPercentages :
          /\ HasMetric(demoStats.Players[1], "weapons", key)
          /\ Pct(1, key) = (100 * FP) \div 3

\* C17: At the weapon-usage finalize a player has all three metrics
\* knife_percentage, non_knife_percentage and no_weapon_percentage if their
\* total_ticks is nonzero, and none of the three with zero observed ticks.
C17_AllThreeOrNone ==
    WeaponsFinal =>
        \A id \in DOMAIN demoStats.Players :
            IF Ticks(id, "total_ticks") # 0
            THEN \A key \in WeaponPercentages : HasMetric(demoStats.Players[id], "weapons", key)
            ELSE \A key \in WeaponPercentages : ~HasMetric(demoStats.Players[id], "weapons", key)

-----------------------------------------------------------------------------
(* Properties of the headshot collector *)

\* A kill counter of the player with SteamID id in DemoStats ds: 0 without
\* an entry or without the counter
KillCount(ds, id, key) ==
    IF id \in DOMAIN ds.Players THEN GetMetric(ds.Players[id], "kills", key).IntValue ELSE 0

KillCounters(ds) ==
    [id \in IDs |-> <<KillCount(ds, id, "total_kills"), KillCount(ds, id, "headshot_kills")>>]

\* Killer and victim non-null, with nonzero numeric IDs, distinct and on
\* different teams
ValidKill(e) ==
    /\ e.Killer # Nil
    /\ e.Victim # Nil
    /\ SteamID64(e.Killer) # 0
    /\ SteamID64(e.Victim) # 0
    /\ e.Killer # e.Victim
    /\ Team(e.Killer) # Team(e.Victim)

\* C18: A kill event increments the killer's total_kills (and headshot_kills,
\* only when flagged headshot) only if killer and victim are both non-null,
\* both have a nonzero numeric ID, are distinct players and are on different
\* teams; any other kill event leaves every player's kill counters unchanged
\* and creates no player entry.
C18_OnlyValidKillsCount ==
    [][hist'.ev.kind = "Kill" =>
          IF ValidKill(hist'.ev.e)
          THEN LET id == SteamID64(hist'.ev.e.Killer)
                   hs == IF hist'.ev.e.IsHeadshot THEN 1 ELSE 0
               IN  KillCounters(demoStats') =
                       [KillCounters(demoStats) EXCEPT ![id] = <<@[1] + 1, @[2] + hs>>]
          ELSE /\ KillCounters(demoStats') = KillCounters(demoStats)
               /\ DOMAIN demoStats'.Players = DOMAIN demoStats.Players]_vars

\* HeadshotCollector.CollectFinalStats has run
HeadshotFinal == pc = "done" \/ (pc = "final" /\ ci > 2)

\* C19: After any sequence of kill events headshot_kills <= total_kills for
\* every player; the headshot_percentage written at finalize lies in [0,100],
\* is written for exactly the players with at least one counted kill, and is
\* 0 for a player with kills but no headshot kills.
C19_HeadshotPercentage ==
    \A id \in DOMAIN demoStats.Players :
        LET total == KillCount(demoStats, id, "total_kills")
            hs == KillCount(demoStats, id, "headshot_kills")
            written == HasMetric(demoStats.Players[id], "kills", "headshot_percentage")
            pct == GetMetric(demoStats.Players[id], "kills", "headshot_percentage").FloatValue
        IN  /\ 0 <= hs
            /\ hs <= total
            /\ written => HeadshotFinal
            /\ HeadshotFinal =>
                  /\ written <=> total >= 1
                  /\ written => pct >= 0 /\ pct <= 100 * FP
                  /\ total >= 1 /\ hs = 0 => written /\ pct = 0

\* Finalized: a player with a kill and no headshot at 0%, a player whose
\* one kill was a headshot at 100%, and no percentage on an entry without
\* kills
C19_Witness ==
    /\ HeadshotFinal
    /\ \E id \in DOMAIN demoStats.Players :
          /\ KillCount(demoStats, id, "total_kills") = 1
          /\ ~HasMetric(demoStats.Players[id], "kills", "headshot_kills")
          /\ HasMetric(demoStats.Players[id], "kills", "headshot_percentage")
          /\ GetMetric(demoStats.Players[id], "kills", "headshot_percentage").FloatValue = 0
    /\ \E id \in DOMAIN demoStats.Players :
          /\ KillCount(demoStats, id, "total_kills") = 1
          /\ KillCount(demoStats, id, "headshot_kills") = 1
          /\ GetMetric(demoStats.Players[id], "kills", "headshot_percentage").FloatValue = 100 * FP
    /\ \E id \in DOMAIN demoStats.Players :
          /\ KillCount(demoStats, id, "total_kills") = 0
          /\ ~HasMetric(demoStats.Players[id], "kills", "headshot_percentage")

-----------------------------------------------------------------------------
(* Properties of the view-angle ring buffer *)

\* The n snapshots added last, the most recent first
LastAdded(n) == [i \in 1 .. n |-> hist.added[Len(hist.added) - i + 1]]

\* The snapshots in the buffer's slots
Stored(rb) == {rb.Buffer[i] : i \in 1 .. rb.Size}

\* C20: The view-angle history is a fixed-capacity ring: the write index
\* always satisfies 0 <= Index < Size; once Size samples have been added the
\* buffer holds exactly the Size samples added last, each Add overwriting the
\* oldest one; and after k >= n Adds, n <= Size, GetLast(n) returns exactly
\* the n samples added last, most recent first.
C20_RingBuffer ==
    pc = "ring" =>
        LET rb == viewBuffers[1]
            k == Len(hist.added)
        IN  /\ 0 <= rb.Index
            /\ rb.Index < rb.Size
            /\ rb.Index = k % rb.Size
            /\ Len(rb.Buffer) = rb.Size
            /\ k >= rb.Size => Stored(rb) = {hist.added[j] : j \in (k - rb.Size + 1) .. k}
            /\ k < rb.Size => Stored(rb) = {hist.added[j] : j \in 1 .. k} \cup {ZeroSnapshot}
            /\ \A n \in 0 .. Min(k, rb.Size) : GetLast(rb, n) = LastAdded(n)

\* A buffer of three slots after five Adds: the write index has wrapped to
\* 2, the first two samples are gone and GetLast(3) is samples 5, 4, 3
C20_Witness ==
    /\ pc = "ring"
    /\ viewBuffers[1].Size = 3
    /\ Len(hist.added) = 5
    /\ viewBuffers[1].Index = 2
    /\ hist.added[1] \notin Stored(viewBuffers[1])
    /\ hist.added[2] \notin Stored(viewBuffers[1])
    /\ GetLast(viewBuffers[1], 3) = <<hist.added[5], hist.added[4], hist.added[3]>>

-----------------------------------------------------------------------------
(* Properties of the snap-angle finalize *)

\* SnapAngleCollector.CollectFinalStats has run
SnapFinal == pc = "done" \/ (pc = "final" /\ ci > 3)

\* x is the element a sorted copy of list v holds at 0-based index idx
IsOrderStatistic(v, x, idx) ==
    /\ \E i \in 1 .. Len(v) : v[i] = x
    /\ Cardinality({i \in 1 .. Len(v) : v[i] < x}) <= idx
    /\ idx < Cardinality({i \in 1 .. Len(v) : v[i] <= x})

Aiming(id, key) == GetMetric(demoStats.Players[id], "aiming", key)

\* C21: For every player with a non-empty list of recorded snap velocities
\* the finalize output has p95_snap_velocity >= median_snap_velocity >= 0,
\* p95 being the sorted element at index floor(0.95 x count) clamped to the
\* last index and the median the sorted element at index count div 2, and
\* snap_count is the number of recorded velocities.
C21_SnapPercentiles ==
    SnapFinal =>
        \A id \in DOMAIN snapVelocities :
            Len(snapVelocities[id]) > 0 =>
                LET v == snapVelocities[id]
                    n == Len(v)
                IN  /\ id \in DOMAIN demoStats.Players
                    /\ HasMetric(demoStats.Players[id], "aiming", "p95_snap_velocity")
                    /\ HasMetric(demoStats.Players[id], "aiming", "median_snap_velocity")
                    /\ IsOrderStatistic(v, Aiming(id, "p95_snap_velocity").FloatValue,
                                        Min((95 * n) \div 100, n - 1))
                    /\ IsOrderStatistic(v, Aiming(id, "median_snap_velocity").FloatValue, n \div 2)
                    /\ Aiming(id, "p95_snap_velocity").FloatValue
                          >= Aiming(id, "median_snap_velocity").FloatValue
                    /\ Aiming(id, "median_snap_velocity").FloatValue >= 0
                    /\ Aiming(id, "snap_count").IntValue = n

\* Player 1 finalized with the five velocities 3, 1.5, 2.75, 2 and 2.5
\* degrees/ms: p95 is the largest, the median 2.5
C21_Witness ==
    /\ SnapFinal
    /\ 1 \in DOMAIN snapVelocities
    /\ Len(snapVelocities[1]) = 5
    /\ Aiming(1, "p95_snap_velocity").FloatValue = 3 * FP
    /\ Aiming(1, "median_snap_velocity").FloatValue = (5 * FP) \div 2
    /\ Aiming(1, "snap_count").IntValue = 5

-----------------------------------------------------------------------------
(* Properties of the reaction-time samples *)

\* The time since the entry tick on record for opponent o of attacker a, in
\* 1/FP milliseconds
Elapsed(a, o) == ((rtcTick - entryTicks[a][o]) * 1000 * FP) \div rtcTickRate

\* The opponents tracked for attacker a
TrackedBy(a) == IF a \in DOMAIN entryTicks THEN DOMAIN entryTicks[a] ELSE {}

SamplesOf(rt, a) == IF a \in DOMAIN rt THEN rt[a] ELSE <<>>

\* The step of the property below
SamplesRecorded ==
    /\ \A a \in DOMAIN reactionTimes' :
          \A i \in 1 .. Len(reactionTimes'[a]) :
              reactionTimes'[a][i] >= 0 /\ reactionTimes'[a][i] <= 2000 * FP
    /\ \A a \in DOMAIN entryTicks' : \A o \in DOMAIN entryTicks'[a] : entryTicks'[a][o] <= rtcTick'
    /\ hist'.ev.kind = "WeaponFire" =>
          LET shooter == SteamID64(hist'.ev.e.Shooter)
              kept == {o \in TrackedBy(shooter) : Elapsed(shooter, o) <= 2000 * FP}
              before == Len(SamplesOf(reactionTimes, shooter))
              after == SamplesOf(reactionTimes', shooter)
          IN  /\ Len(after) = before + Cardinality(kept)
              /\ \A o \in kept : \E i \in (before + 1) .. Len(after) : after[i] = Elapsed(shooter, o)

\* C22: Every reaction-time sample ever appended to a player's list lies in
\* [0, 2000] ms: a weapon-fire event appends one sample for each tracked
\* opponent whose elapsed time is at most 2000 ms and none for one above it,
\* and no entry tick on record is later than the current tick.
C22_SamplesWithinCeiling == [][SamplesRecorded]_vars

\* Player 1's first shot has just come more than 2000 ms after player 2
\* entered the FOV for good, and no sample was recorded
C22_Witness ==
    /\ hist.ev.kind = "WeaponFire"
    /\ hist.shots[1] = 1
    /\ 2 \in DOMAIN hist.fovSince[1]
    /\ (rtcTick - hist.fovSince[1][2]) * 1000 > 2000 * rtcTickRate
    /\ 1 \notin DOMAIN reactionTimes

\* Player 1's first shot has just come exactly 2000 ms after player 2
\* entered the FOV, and the sample was recorded
C22_AtCeiling ==
    /\ hist.ev.kind = "WeaponFire"
    /\ hist.shots[1] = 1
    /\ 1 \in DOMAIN reactionTimes
    /\ reactionTimes[1] = <<2000 * FP>>


-----------------------------------------------------------------------------
(* Recoil efficiency *)

RecoilFinal == pc = "done" \/ (pc = "final" /\ ci > CollectorIndex("RecoilControl"))

\* Player p passed the sample guard of the recoil finalize
AboveGuard(p) ==
    /\ p \in DOMAIN demoStats.Players
    /\ HasMetric(demoStats.Players[p], "recoil", "total_error_sum")
    /\ Recoil(p, "total_counted_bullets").IntValue >= 10
    /\ Recoil(p, "burst_count").IntValue >= 2

\* C23: The recoil_efficiency written at finalize does not increase with the
\* mean angular error: of two players above the sample guard, the one with
\* the smaller or equal mean error has the greater or equal efficiency; the
\* efficiency is 100 at or below the perfect threshold (0.3 degrees) and 0 at
\* or above the poor threshold (1.0 degree), and stays within 0..100.
C23_EfficiencyMonotone ==
    RecoilFinal =>
        \A p \in IDs :
            AboveGuard(p) =>
                LET e == Recoil(p, "mean_angular_error").FloatValue
                    f == Recoil(p, "recoil_efficiency").FloatValue
                IN  /\ HasMetric(demoStats.Players[p], "recoil", "recoil_efficiency")
                    /\ e * Recoil(p, "total_counted_bullets").IntValue
                           <= Recoil(p, "total_error_sum").FloatValue
                    /\ f >= 0 /\ f <= 100 * FP
                    /\ e <= perfectThreshold => f = 100 * FP
                    /\ e >= FP => f = 0
                    /\ \A q \in IDs :
                           AboveGuard(q) /\ e <= Recoil(q, "mean_angular_error").FloatValue
                               => f >= Recoil(q, "recoil_efficiency").FloatValue

\* Two players finalized above the guard, one strictly more precise than the
\* other, both strictly between the two thresholds
C23_Witness ==
    /\ pc = "done"
    /\ AboveGuard(1) /\ AboveGuard(2)
    /\ perfectThreshold < Recoil(1, "mean_angular_error").FloatValue
    /\ Recoil(1, "mean_angular_error").FloatValue < Recoil(2, "mean_angular_error").FloatValue
    /\ Recoil(2, "mean_angular_error").FloatValue < FP
    /\ Recoil(1, "recoil_efficiency").FloatValue > Recoil(2, "recoil_efficiency").FloatValue

-----------------------------------------------------------------------------
(* Metrics store *)

StorePairs == StorePlayers \X StoreCategories \X StoreKeys

\* GetMetric(category, key) on the entry of player id: <<metric, found>>
Lookup(ds, id, category, key) ==
    IF id \in DOMAIN ds.Players
    THEN <<GetMetric(ds.Players[id], category, key), HasMetric(ds.Players[id], category, key)>>
    ELSE <<ZeroMetric, FALSE>>

\* The call of the step changed nothing but the pair it names
OthersUnchanged ==
    \A t \in StorePairs :
        t # <<hist'.ev.e.id, hist'.ev.e.category, hist'.ev.e.key>>
            => Lookup(demoStats', t[1], t[2], t[3]) = Lookup(demoStats, t[1], t[2], t[3])

AddMetricStep ==
    hist'.ev.kind = "AddMetric" =>
        /\ Lookup(demoStats', hist'.ev.e.id, hist'.ev.e.category, hist'.ev.e.key)
               = <<hist'.ev.e.metric, TRUE>>
        /\ OthersUnchanged
        /\ DOMAIN demoStats'.Players = DOMAIN demoStats.Players

\* Every pair holds what AddMetric wrote to it last, if nothing wrote to it
\* since, and a pair never written is not found
LastWriteWins ==
    \A t \in StorePairs :
        /\ t \notin DOMAIN hist.wrote => Lookup(demoStats, t[1], t[2], t[3]) = <<ZeroMetric, FALSE>>
        /\ t \in DOMAIN hist.wrote /\ hist.wrote[t].op = "AddMetric"
               => Lookup(demoStats, t[1], t[2], t[3]) = <<hist.wrote[t].metric, TRUE>>

\* C24: AddMetric overwrites unconditionally and the last write wins: after
\* AddMetric(c, k, m), GetMetric(c, k) returns (m, true) until the next write
\* to (c, k); every other (category, key) pair of that player and all other
\* players are unchanged by the call; GetMetric on a pair never written
\* returns found = false.
C24_LastWriteWins == [][AddMetricStep /\ LastWriteWins']_vars

\* A metric was overwritten by one of another type, and a later call on
\* another pair of the same player left it in place
C24_Witness ==
    /\ pc = "store"
    /\ hist.ev.kind = "IncrementIntMetric"
    /\ hist.ev.e.key = "burst_count"
    /\ <<1, "kills", "total_kills">> \in DOMAIN hist.wrote
    /\ hist.wrote[<<1, "kills", "total_kills">>].op = "AddMetric"
    /\ hist.wrote[<<1, "kills", "total_kills">>].n = 2
    /\ Lookup(demoStats, 1, "kills", "total_kills") = <<StringMetric("Wingman"), TRUE>>
    /\ Lookup(demoStats, 1, "kills", "burst_count") = <<IntegerMetric(1), TRUE>>

IncrementStep ==
    hist'.ev.kind = "IncrementIntMetric" =>
        LET before == Lookup(demoStats, hist'.ev.e.id, hist'.ev.e.category, hist'.ev.e.key)
            after == Lookup(demoStats', hist'.ev.e.id, hist'.ev.e.category, hist'.ev.e.key)
        IN  /\ ~before[2] => after = <<IntegerMetric(1), TRUE>>
            /\ before[2] /\ before[1].Type = "integer"
                   => after = <<[before[1] EXCEPT !.IntValue = @ + 1], TRUE>>
            /\ before[2] /\ before[1].Type # "integer" => after = before

\* C25: IncrementIntMetric(c, k) creates an integer metric with value 1 when
\* (c, k) is absent, adds exactly 1 to the value when (c, k) holds an
\* integer-typed metric, and leaves the stored metric unchanged (the call
\* fails) when the metric at (c, k) is not integer-typed.
C25_IncrementChecksType == [][IncrementStep]_vars

\* The (category, key) pairs that hold a metric of player id
PairsOf(ds, id) ==
    UNION {{<<c, k>> : k \in DOMAIN ds.Players[id].Categories[c]} :
               c \in DOMAIN ds.Players[id].Categories}

OnlyGrows ==
    /\ DOMAIN demoStats.Players \subseteq DOMAIN demoStats'.Players
    /\ \A id \in DOMAIN demoStats.Players :
          /\ PairsOf(demoStats, id) \subseteq PairsOf(demoStats', id)
          /\ demoStats'.Players[id].Player = demoStats.Players[id].Player
    /\ \A id \in DOMAIN demoStats'.Players \ DOMAIN demoStats.Players :
          demoStats'.Players[id].Player.SteamID64 = id

\* C26: Over the ticks, events and finalize hooks of a run, the set of player
\* IDs in DemoStats and, for each player, the set of (category, key) pairs
\* holding a metric only grow: no player entry and no metric is ever removed,
\* and an entry is created only for an ID that has none (an existing entry is
\* never made anew).
C26_StoreOnlyGrows == [][OnlyGrows]_vars

\* A finished run with the entries of two players, one of them holding
\* metrics of the frames, of a kill and of the finalize hooks
C26_Witness ==
    /\ pc = "done"
    /\ {1, 2} \subseteq DOMAIN demoStats.Players
    /\ HasMetric(demoStats.Players[1], "kills", "total_kills")
    /\ HasMetric(demoStats.Players[1], "weapons", "total_ticks")
    /\ HasMetric(demoStats.Players[1], "anti_cheat", "cheat_likelihood")

-----------------------------------------------------------------------------
(* Parse errors *)

FinalCalls == {i \in DOMAIN hist.log : hist.log[i][1] = "CollectFinalStats"}

\* Analyze returned Results{} and an error: no DemoStats, no finalize hook run
Aborted == pc = "aborted" /\ results = "error" /\ FinalCalls = {}

AbortStep ==
    /\ hist'.ev.kind = "ParseError" => Aborted'
    /\ Aborted => Aborted'
    /\ results' = "error" => Aborted'

\* C27: If parsing a frame returns an error, Analyze aborts: it returns an
\* error together with an empty Results (no DemoStats), and no collector's
\* CollectFinalStats is called in that run, neither before nor after the
\* error.
C27_ParseErrorAborts == [][AbortStep]_vars

\* A frame failed to parse in the middle of its events, after whole frames
\* had been collected
C27_Witness ==
    /\ Aborted
    /\ hist.ev.kind = "ParseError"
    /\ frameCount >= 1
    /\ pending > 0
    /\ DOMAIN demoStats.Players # {}

-----------------------------------------------------------------------------
(* Recoil bursts *)

\* The burst of player p qualifies for the totals
Qualifies(state) == state.bulletIndex >= minBurstSize /\ state.countedBullets >= 1

\* The totals of player p after the burst `state` was added to `totals`
TotalsPlus(totals, state) ==
    [total_error_sum |-> FloatMetric(totals.total_error_sum.FloatValue + state.sumError),
     total_counted_bullets |->
         IntegerMetric(totals.total_counted_bullets.IntValue + state.countedBullets),
     burst_count |-> [totals.burst_count EXCEPT !.Type = "integer", !.IntValue = @ + 1]]

\* RecoilTotals(p) in the state a step leads to (the metrics found or zero)
RecoilTotalsAfter(p) ==
    [k \in {"total_error_sum", "total_counted_bullets", "burst_count"} |->
        IF p \in DOMAIN demoStats'.Players
        THEN GetMetric(demoStats'.Players[p], "recoil", k) ELSE ZeroMetric]

\* The step finalized the burst `state` of player p: its totals took it up
\* if it qualifies and are unchanged if it does not
FinalizedInStep(p, state) ==
    IF Qualifies(state)
    THEN \A k \in DOMAIN RecoilTotals(p) :
            /\ RecoilTotalsAfter(p)[k].FloatValue = TotalsPlus(RecoilTotals(p), state)[k].FloatValue
            /\ RecoilTotalsAfter(p)[k].IntValue = TotalsPlus(RecoilTotals(p), state)[k].IntValue
    ELSE RecoilTotalsAfter(p) = RecoilTotals(p)

StartsBurst(state, e, t) ==
    /\ state.inBurst
    /\ state.bulletIndex = 1
    /\ state.firstYawDeg = e.Yaw
    /\ state.firstPitchDeg = e.Pitch
    /\ state.lastFireTick = t
    /\ state.countedBullets = 0

BurstTransition ==
    (/\ hist'.ev.kind = "WeaponFire"
     /\ SteamID64(hist'.ev.e.Shooter) # 0
     /\ isAutomaticWeapon(hist'.ev.e.Weapon)) =>
        LET e == hist'.ev.e
            p == SteamID64(e.Shooter)
            t == frame
        IN  /\ p \in DOMAIN sprayStates'
            /\ IF ~InBurst(p)
               THEN /\ StartsBurst(sprayStates'[p], e, t)
                    /\ RecoilTotalsAfter(p) = RecoilTotals(p)
               ELSE IF t - sprayStates[p].lastFireTick <= 6
               THEN /\ sprayStates'[p].inBurst
                    /\ sprayStates'[p].bulletIndex = sprayStates[p].bulletIndex + 1
                    /\ sprayStates'[p].firstYawDeg = sprayStates[p].firstYawDeg
                    /\ sprayStates'[p].firstPitchDeg = sprayStates[p].firstPitchDeg
                    /\ sprayStates'[p].lastFireTick = t
                    /\ RecoilTotalsAfter(p) = RecoilTotals(p)
               ELSE /\ StartsBurst(sprayStates'[p], e, t)
                    /\ FinalizedInStep(p, sprayStates[p])

\* C28: On a fire event of an automatic weapon by a valid shooter at tick t:
\* with no burst in progress a burst starts with bullet index 1, the current
\* aim as reference angle and lastFireTick = t; with a burst in progress and
\* t - lastFireTick <= 6 the bullet index increases by exactly 1, the
\* reference angle is unchanged and lastFireTick = t; with t - lastFireTick
\* > 6 the old burst is finalized and a new burst starts with bullet index 1
\* and the current aim as reference angle.
C28_BurstTransition == [][BurstTransition]_vars

\* The only shot of the run comes 7 ticks or more after the last shot of a
\* burst of 3 that is still in progress: a new burst has started
C28_Witness ==
    /\ hist.ev.kind = "WeaponFire"
    /\ hist.ev.e.Shooter = 1
    /\ hist.recent = 1
    /\ hist.shots[1] = minBurstSize
    /\ frame - (AccFrames - 5) > maxBurstGap
    /\ sprayStates[1].inBurst
    /\ sprayStates[1].bulletIndex = 1
    /\ sprayStates[1].lastFireTick = frame
    /\ sprayStates[1].firstYawDeg = FP

\* A shot exactly 6 ticks after the one before it carries the burst on
C28_AtGap ==
    /\ hist.ev.kind = "WeaponFire"
    /\ hist.ev.e.Shooter = 1
    /\ hist.recent = 1
    /\ frame - (AccFrames - 5) = maxBurstGap
    /\ sprayStates[1].bulletIndex = maxBulletIdx + 1
    /\ sprayStates[1].firstYawDeg = 0

\* The step ends the burst player p has in progress: the detector's
\* CollectFrame or a fire event of p finds the gap expired, or the detector's
\* CollectFinalStats runs
EndsBurst(p) ==
    /\ InBurst(p)
    /\ \/ /\ hist'.ev.kind = "CollectFrame"
          /\ Collectors[ci] = "RecoilControl"
          /\ frame - sprayStates[p].lastFireTick > maxBurstGap
       \/ /\ hist'.ev.kind = "WeaponFire"
          /\ SteamID64(hist'.ev.e.Shooter) = p
          /\ isAutomaticWeapon(hist'.ev.e.Weapon)
          /\ frame - sprayStates[p].lastFireTick > maxBurstGap
       \/ /\ hist'.ev.kind = "CollectFinalStats"
          /\ Collectors[ci] = "RecoilControl"

BurstAccounting ==
    \A p \in 1 .. NumPlayers :
        /\ IF EndsBurst(p)
           THEN /\ FinalizedInStep(p, sprayStates[p])
                /\ Qualifies(sprayStates[p]) =>
                       \/ ~sprayStates'[p].inBurst
                       \/ sprayStates'[p].bulletIndex = 1
           ELSE RecoilTotalsAfter(p) = RecoilTotals(p)
        /\ RecoilAccounting(p)'

\* C29: A burst is added to the per-player totals only if it reached bullet
\* index >= 4 with at least one counted bullet, and each burst is added at
\* most once, whether it ends by gap expiry detected on a tick, by a later
\* fire event after the gap, or at run end: the totals change in no other
\* step, and total_counted_bullets, total_error_sum and burst_count are the
\* sums over the bursts finalized so far.
C29_BurstsAddedOnce == [][BurstAccounting]_vars

\* A burst carried on to bullet 31 one tick before the run ends was taken up
\* at run end, next to the burst of 7 counted bullets scored before
C29_Witness ==
    /\ pc = "done"
    /\ hist.recent = 2
    /\ 1 \in DOMAIN sprayStates
    /\ ~sprayStates[1].inBurst
    /\ sprayStates[1].lastFireTick = frameCount - 1
    /\ Recoil(1, "burst_count").IntValue = 2
    /\ Recoil(1, "total_counted_bullets").IntValue = 7 + maxBulletIdx - (minBurstSize - 1)
    /\ Recoil(1, "total_error_sum").FloatValue > 0

\* A burst of 30 bullets was taken up by CollectFrame at the first tick
\* more than 6 ticks after its last shot
C29_OnTick ==
    /\ pc = "collect"
    /\ hist.ev.kind = "CollectFrame"
    /\ hist.recent = 0
    /\ frame = AccFrames - 5 + maxBurstGap + 1
    /\ 1 \in DOMAIN sprayStates
    /\ ~sprayStates[1].inBurst
    /\ Recoil(1, "burst_count").IntValue = 1
    /\ Recoil(1, "total_counted_bullets").IntValue = maxBulletIdx - (minBurstSize - 1)

\* The counted bullets of every burst in progress, by its bullet index
CountedByIndex ==
    \A p \in DOMAIN sprayStates :
        sprayStates[p].inBurst =>
            sprayStates[p].countedBullets = Max(0, Min(sprayStates[p].bulletIndex, 30) - 3)

\* A shot that carries a burst on counts its bullet iff its index is 4..30
CountsBullet ==
    \A p \in DOMAIN sprayStates :
        (/\ InBurst(p)
         /\ p \in DOMAIN sprayStates'
         /\ sprayStates'[p].bulletIndex = sprayStates[p].bulletIndex + 1) =>
            sprayStates'[p].countedBullets =
                sprayStates[p].countedBullets
                    + (IF sprayStates'[p].bulletIndex \in 4 .. 30 THEN 1 ELSE 0)

LookupNeverFails ==
    \A w \in Equipment, index \in 0 .. maxBulletIdx + 2 : getRecoilOffsets(w, index).ok

\* C30: While a player's burst is in progress, countedBullets =
\* max(0, min(bulletIndex, 30) - 3): bullets 1 to 3 and bullets beyond index
\* 30 are never counted, and every bullet with index 4..30 is counted exactly
\* once; the spray-pattern lookup fails for no weapon and no index.
C30_CountedBullets == [][CountedByIndex /\ CountedByIndex' /\ CountsBullet /\ LookupNeverFails]_vars

\* A burst of an M4A4, whose pattern table ends at bullet 20, carried on from
\* bullet 30 to bullet 32: 27 bullets counted
C30_Witness ==
    /\ hist.ev.kind = "WeaponFire"
    /\ 1 \in DOMAIN sprayStates
    /\ sprayStates[1].inBurst
    /\ sprayStates[1].weapon = "m4a4"
    /\ sprayStates[1].bulletIndex = maxBulletIdx + 2
    /\ sprayStates[1].countedBullets = 27

\* A burst carried on from bullet 3 to bullet 4: the first counted bullet
C30_FirstCounted ==
    /\ hist.ev.kind = "WeaponFire"
    /\ 1 \in DOMAIN sprayStates
    /\ sprayStates[1].inBurst
    /\ sprayStates[1].weapon = "mp7"
    /\ sprayStates[1].bulletIndex = 4
    /\ sprayStates[1].countedBullets = 1
    /\ hist.recent = 1

-----------------------------------------------------------------------------
(* Recoil sample guard *)

ComputedKeys == {"mean_angular_error", "recoil_efficiency", "recoil_score", "recoil_interpretation"}

\* What the recoil finalize left on the entry of player p
GuardedRecoil(p) ==
    IF Recoil(p, "total_counted_bullets").IntValue >= 10 /\ Recoil(p, "burst_count").IntValue >= 2
    THEN /\ ComputedKeys \subseteq RecoilKeys(p)
         /\ Recoil(p, "mean_angular_error").Type = "float"
         /\ Recoil(p, "recoil_efficiency").Type = "percentage"
    ELSE /\ RecoilKeys(p) \cap ComputedKeys = {"mean_angular_error", "recoil_efficiency"}
         /\ Recoil(p, "mean_angular_error") = FloatMetric(0)
         /\ Recoil(p, "recoil_efficiency") = PercentageMetric(0)

\* C31: At the recoil finalize a computed mean_angular_error,
\* recoil_efficiency, recoil_score and recoil_interpretation are written
\* only for players with total_counted_bullets >= 10 and burst_count >= 2;
\* every other player present in DemoStats at that time gets only the
\* placeholders mean_angular_error = 0 and recoil_efficiency = 0 and no
\* recoil_score, and the composite scorer's recoil component of such a
\* player is 0.
C31_RecoilSampleGuard ==
    /\ (pc = "final" /\ ci = CollectorIndex("RecoilControl") + 1) =>
           \A p \in DOMAIN demoStats.Players : GuardedRecoil(p)
    /\ pc = "done" =>
           \A p \in DOMAIN demoStats.Players :
               /\ p # 0 => GuardedRecoil(p)
               /\ "recoil_score" \notin RecoilKeys(p) => AntiCheat(demoStats.Players[p], "recoil_score") = 0
               /\ "recoil_score" \in RecoilKeys(p) =>
                      AntiCheat(demoStats.Players[p], "recoil_score")
                          = Recoil(p, "recoil_score").FloatValue

\* A finished run: player 1 has 14 counted bullets of a single burst,
\* player 2 has 10 bullets of 2 bursts and a recoil component of 1
C31_Witness ==
    /\ pc = "done"
    /\ Recoil(1, "total_counted_bullets").IntValue = 14
    /\ Recoil(1, "burst_count").IntValue = 1
    /\ "recoil_score" \notin RecoilKeys(1)
    /\ Recoil(2, "total_counted_bullets").IntValue = 10
    /\ Recoil(2, "burst_count").IntValue = 2
    /\ AntiCheat(demoStats.Players[2], "recoil_score") = FP

\* C32: The recoil suspicion score uses the same linear mapping as the recoil
\* efficiency: for every player above the sample guard recoil_score =
\* recoil_efficiency / 100 (to within 0.02, the scores being kept to 0.01).
C32_SameMapping ==
    RecoilFinal =>
        \A p \in IDs :
            AboveGuard(p) =>
                LET score == Recoil(p, "recoil_score").FloatValue
                    efficiency == Recoil(p, "recoil_efficiency").FloatValue
                IN  /\ 100 * score - efficiency <= 2 * FP
                    /\ efficiency - 100 * score <= 2 * FP

-----------------------------------------------------------------------------
(* Angular error of a bullet *)

\* The shortest angular distance of a difference d of two angles
ShortWay(d) ==
    LET m == d % (360 * FP)
    IN  IF m > 180 * FP THEN 360 * FP - m ELSE m

WrapAwareError ==
    \A p \in DOMAIN sprayStates :
        (/\ hist'.ev.kind = "WeaponFire"
         /\ p \in DOMAIN sprayStates'
         /\ sprayStates'[p].countedBullets = sprayStates[p].countedBullets + 1) =>
            LET e == hist'.ev.e
                offsets == getRecoilOffsets(sprayStates[p].weapon, sprayStates'[p].bulletIndex)
                yawDiff == (sprayStates[p].firstYawDeg - offsets.yaw) - e.Yaw
                pitchDiff == (sprayStates[p].firstPitchDeg - offsets.pitch) - e.Pitch
            IN  sprayStates'[p].sumError - sprayStates[p].sumError
                    = Hypot(ShortWay(yawDiff), ShortWay(pitchDiff))

\* C33: The per-bullet recoil error is wrap-aware: the yaw and pitch
\* differences between expected and actual aim are shortest angular
\* distances modulo 360 degrees, so that angles that differ by a multiple of
\* 360 degrees give error 0.
C33_WrapAwareError == [][WrapAwareError]_vars

-----------------------------------------------------------------------------
(* Snap start and end samples *)

\* The step is a kill event that processKill analyses: killer and victim
\* present, not teammates, the killer with a view history
QualifyingKill ==
    /\ hist'.ev.kind = "Kill"
    /\ hist'.ev.e.Killer # Nil
    /\ hist'.ev.e.Victim # Nil
    /\ Team(hist'.ev.e.Killer) # Team(hist'.ev.e.Victim)
    /\ SteamID64(hist'.ev.e.Killer) \in DOMAIN viewBuffers

\* The up to 40 samples recorded last for player id, the most recent first
LastTaken(id) ==
    LET t == hist.taken[id]
    IN  [i \in 1 .. Min(Len(t), ViewAngleBufferSize) |-> t[Len(t) - i + 1]]

\* The adjacent pairs (r[i], r[i+1]) that moved less than the threshold
SettledPairs(r) ==
    {i \in 1 .. Len(r) - 1 : SnapshotDelta(r[i], r[i + 1]) < MinAngleDiffThreshold}

FirstOf(S) == CHOOSE i \in S : \A j \in S : i <= j

SettledStart ==
    (QualifyingKill /\ Len(hist.taken[SteamID64(hist'.ev.e.Killer)]) >= ViewAngleBufferSize) =>
        LET r == LastTaken(SteamID64(hist'.ev.e.Killer))
        IN  /\ hist'.snap.end = r[1]
            /\ SettledPairs(r) # {} => hist'.snap.start = r[FirstOf(SettledPairs(r)) + 1]

\* C34: On a qualifying kill (of a killer with a full history) the snap start
\* sample is the earlier sample of the first adjacent pair, scanning the
\* history backward from the most recent sample and including the pair of the
\* kill-time sample and its predecessor, whose combined angular delta is
\* below 0.2 degrees; the end sample is the most recent sample.
C34_SettledStart == [][SettledStart]_vars

RecordedSamples ==
    QualifyingKill =>
        LET r == LastTaken(SteamID64(hist'.ev.e.Killer))
            recorded == {r[i] : i \in DOMAIN r}
        IN  /\ hist'.snap.end \in recorded
            /\ hist'.snap.start \in recorded
            /\ hist'.snap.end.Tick <= frame
            /\ SettledPairs(r) = {} => hist'.snap.start = r[Len(r)]

\* C35: On a qualifying kill the snap start and end samples are samples that
\* were recorded for the killer on an earlier tick, also when the killer has
\* fewer than 40 recorded ticks (no never-written buffer slot is used), and
\* when no settled pair exists the start is the oldest recorded sample.
C35_RecordedSamples == [][RecordedSamples]_vars

-----------------------------------------------------------------------------
(* FOV tracking *)

\* The step is the reaction-time collector's CollectFrame for the frame just parsed
FovTick == pc = "collect" /\ Collectors[ci] = "ReactionTime"

\* Opponent o is in attacker a's FOV at this tick: a live player of the
\* other team within a's view cone
InFov(a, o) ==
    /\ o \in gs.playing
    /\ o \in gs.alive
    /\ Team(o) # Team(a)
    /\ <<a, o>> \in gs.fov

FovTracking ==
    FovTick =>
        \A a \in PlayingHumans(gs) :
            /\ a \in DOMAIN entryTicks'
            /\ DOMAIN entryTicks'[a] \subseteq HumanObjs \ {a}
            /\ \A o \in HumanObjs \ {a} :
                  IF InFov(a, o)
                  THEN /\ o \in DOMAIN entryTicks'[a]
                       /\ entryTicks'[a][o] = IF o \in TrackedBy(a) THEN entryTicks[a][o] ELSE frame
                  ELSE o \notin DOMAIN entryTicks'[a]

\* C36: At every tick, for every attacker the collector visits: an opponent
\* in the attacker's FOV who was not tracked gets the current tick as entry
\* tick; an opponent in the FOV who was tracked (no clearing event since)
\* keeps the stored entry tick; an opponent who is not in the FOV, is dead or
\* is a teammate is absent from the attacker's tracking after the tick.
C36_FovTracking == [][FovTracking]_vars

\* Player 2 has been in player 1's FOV for two ticks and keeps the first
\* one as entry tick, while the bot in player 1's FOV is not tracked
C36_Witness ==
    /\ pc = "parse"
    /\ hist.ev.kind = "CollectFrame"
    /\ <<1, 2>> \in gs.fov
    /\ <<1, BotObj>> \in gs.fov
    /\ 2 \in TrackedBy(1)
    /\ entryTicks[1][2] = rtcTick - 1

\* A dead opponent within the view cone is not tracked
C36_DeadOpponent ==
    /\ pc = "parse"
    /\ hist.ev.kind = "CollectFrame"
    /\ frame > AccFrames
    /\ <<1, 2>> \in gs.fov
    /\ 2 \notin gs.alive
    /\ 1 \in gs.alive
    /\ 1 \in DOMAIN entryTicks
    /\ 2 \notin TrackedBy(1)

-----------------------------------------------------------------------------
(* FOV tracking of the dead *)

\* Player v is in nobody's tracking and tracks nobody
Untracked(v) ==
    /\ \A a \in DOMAIN entryTicks : v \notin DOMAIN entryTicks[a]
    /\ TrackedBy(v) = {}

\* The reaction-time collector has seen the frame that gs describes
FovCollected == pc = "collect" => ci > CollectorIndex("ReactionTime")

\* Right after a kill event the victim is untracked
VictimCleared == hist.ev.kind = "Kill" => Untracked(SteamID64(hist.ev.e.Victim))

\* On every tick on which a killed player is dead, the player is untracked
DeadStayUntracked == FovCollected => \A v \in HumanObjs \ gs.alive : Untracked(v)

\* After a round-end event nobody has any tracking
RoundEndClears == hist.ev.kind = "RoundEnd" => \A a \in HumanObjs : TrackedBy(a) = {}

\* C37: After a kill event the victim appears in no attacker's FOV tracking
\* and has no FOV tracking of their own, and this stays true on every
\* following tick for as long as the victim is dead; after a round-end event
\* no player has any FOV tracking until the next tick.
C37_NoTrackingOfDead == VictimCleared /\ DeadStayUntracked /\ RoundEndClears

-----------------------------------------------------------------------------
(* Reaction-time finalize *)

ReactionKeys ==
    {"median_reaction_time", "p10_reaction_time", "sub_100ms_ratio", "reaction_samples",
     "reaction_cheat_score"}

\* ReactionTimeCollector.CollectFinalStats has run
ReactionFinal == pc = "done" \/ (pc = "final" /\ ci > CollectorIndex("ReactionTime"))

ReactionValue(id, key) == GetMetric(demoStats.Players[id], "reaction", key).FloatValue

ReactionStatistics(id) ==
    LET times == SamplesOf(reactionTimes, id)
        n == Len(times)
        quick == Cardinality({i \in 1 .. n : times[i] <= 100 * FP})
    IN  IF n >= 5
        THEN /\ \A key \in ReactionKeys : HasMetric(demoStats.Players[id], "reaction", key)
             /\ ReactionValue(id, "p10_reaction_time") <= ReactionValue(id, "median_reaction_time")
             /\ \E i \in 1 .. n : times[i] = ReactionValue(id, "p10_reaction_time")
             /\ \E i \in 1 .. n : times[i] = ReactionValue(id, "median_reaction_time")
             /\ ReactionValue(id, "sub_100ms_ratio") = (quick * 100 * FP) \div n
             /\ ReactionValue(id, "sub_100ms_ratio") >= 0
             /\ ReactionValue(id, "sub_100ms_ratio") <= 100 * FP
             /\ GetMetric(demoStats.Players[id], "reaction", "reaction_samples").IntValue = n
        ELSE \A key \in ReactionKeys : ~HasMetric(demoStats.Players[id], "reaction", key)

\* C38: After the reaction finalize, median_reaction_time, p10_reaction_time,
\* sub_100ms_ratio, reaction_samples and reaction_cheat_score are written
\* exactly for the players with at least 5 recorded samples; for those
\* p10 <= median, both are recorded samples, sub_100ms_ratio is the
\* percentage of samples <= 100 ms, within [0, 100], and reaction_samples is
\* the number of samples.
C38_ReactionStatistics ==
    /\ ReactionFinal => \A id \in DOMAIN demoStats.Players : ReactionStatistics(id)
    /\ \A id \in DOMAIN reactionTimes : Len(reactionTimes[id]) >= 5 => id \in DOMAIN demoStats.Players

\* Five samples of 90 and 120 ms: p10 is 90 ms, below the median of 120 ms,
\* and one sample in five is at most 100 ms
C38_Witness ==
    /\ ReactionFinal
    /\ Len(SamplesOf(reactionTimes, 1)) = 5
    /\ ReactionValue(1, "p10_reaction_time") = 90 * FP
    /\ ReactionValue(1, "median_reaction_time") = 120 * FP
    /\ ReactionValue(1, "sub_100ms_ratio") = 20 * FP

\* Four samples: nothing written
C38_FourSamples ==
    /\ ReactionFinal
    /\ Len(SamplesOf(reactionTimes, 1)) = 4
    /\ 1 \in DOMAIN demoStats.Players

-----------------------------------------------------------------------------
(* The reaction sub-score and the reaction component *)

ReactionAgreement(id) ==
    /\ HasMetric(demoStats.Players[id], "anti_cheat", "reaction_score")
    /\ IF HasMetric(demoStats.Players[id], "reaction", "reaction_cheat_score")
       THEN AntiCheat(demoStats.Players[id], "reaction_score") = ReactionValue(id, "reaction_cheat_score")
       ELSE AntiCheat(demoStats.Players[id], "reaction_score") = 0

\* C39: When the analysis is done, for every player: if the reaction
\* detector wrote reaction/reaction_cheat_score, the composite scorer's
\* anti_cheat/reaction_score equals it, and if it did not,
\* anti_cheat/reaction_score is 0.
C39_ReactionAgreement == pc = "done" => \A id \in DOMAIN demoStats.Players : ReactionAgreement(id)

\* Player 1 with a p10 of 90 ms has 0.5 in both places, player 2 without
\* samples has a reaction component of 0
C39_Witness ==
    /\ pc = "done"
    /\ HasMetric(demoStats.Players[1], "reaction", "reaction_cheat_score")
    /\ ReactionValue(1, "reaction_cheat_score") = FP \div 2
    /\ AntiCheat(demoStats.Players[1], "reaction_score") = FP \div 2
    /\ 2 \in DOMAIN demoStats.Players
    /\ ~HasMetric(demoStats.Players[2], "reaction", "reaction_cheat_score")

-----------------------------------------------------------------------------
(* Game mode and round count *)

\* GameModeCollector.CollectFinalStats has run
GameModeFinal == pc = "done" \/ (pc = "final" /\ ci > CollectorIndex("GameMode"))

\* The players observed in the replay: every entry but the ID-0 global one
ObservedPlayers == DOMAIN demoStats.Players \ {0}

GameInfo(id, key) == GetMetric(demoStats.Players[id], "game_info", key)

\* round_count is the number of round-end events, and every entry carries
\* the values of the ID-0 entry
GameInfoCopied ==
    GameModeFinal =>
        /\ 0 \in DOMAIN demoStats.Players
        /\ \A id \in DOMAIN demoStats.Players :
              /\ HasMetric(demoStats.Players[id], "game_info", "round_count")
              /\ HasMetric(demoStats.Players[id], "game_info", "game_mode")
              /\ GameInfo(id, "round_count").IntValue = roundCount
              /\ GameInfo(id, "game_mode").StringValue = GameInfo(0, "game_mode").StringValue

DetectedMode ==
    GameModeFinal =>
        /\ 0 \in DOMAIN demoStats.Players
        /\ GameInfo(0, "game_mode").StringValue =
              IF Cardinality(ObservedPlayers) <= 4 THEN "Wingman" ELSE "Competitive"

\* C40: After the game-mode finalize the detected game mode is "Wingman"
\* exactly when the number of players observed in the replay is 4 or fewer
\* and "Competitive" otherwise; round_count equals the number of round-end
\* events; both are stored on the ID-0 global entry and copied with the same
\* values to every player entry.
C40_GameMode == DetectedMode /\ GameInfoCopied

=============================================================================
